---- MODULE Spec2Model ----
(***************************************************************************)
(* Model of the wavespeed-cli core: the task lifecycle (submitTask,        *)
(* pollUntilDone, the four operation orchestrators), the two-tier model    *)
(* metadata cache (ModelCache) and the model resolver (resolveModel,       *)
(* listModels).                                                            *)
(*                                                                         *)
(* The repository holds two generations of pollUntilDone:                  *)
(*   "model" : pollUntilDone(model, requestId, intervalMs, maxDurationMs), *)
(*             src/utils/images.ts 85-119, the one the orchestrators of    *)
(*             core/operations (unnamed/part_011) call;                    *)
(*   "retry" : pollUntilDone(id, opts), src/utils/polling.ts 46-72, with   *)
(*             the network-retry counter, called as pollUntilDone(id) by   *)
(*             the earlier orchestrators (unnamed/part_010).               *)
(* The variable impl says which one a run executes.                        *)
(***************************************************************************)
EXTENDS Integers, Sequences, FiniteSets, TLC

VARIABLES
    \* ---- task lifecycle ----
    impl,        \* which pollUntilDone this run executes: "model" | "retry"
    op,          \* the orchestrator invoked
    pc,          \* position of the orchestrator / poll loop
    now,         \* Date.now()
    start,       \* pollUntilDone: const start = Date.now()
    netErrors,   \* pollUntilDone (retry): let netErrors
    created,     \* record returned by submitTask (optional: <<>> or <<rec>>)
    pollOutcome, \* how pollUntilDone ended: [kind |-> pending|returned|threw, ...]
    thrown,      \* message of the exception raised inside the try block (optional)
    opResult,    \* OperationResult the orchestrator resolved to (optional)
    hist,        \* history: counters of requests issued and responses seen
    \* ---- model metadata cache ----
    data,           \* ModelCache.data (optional snapshot)
    memoryLoadedAt, \* ModelCache.memoryLoadedAt
    file,           \* content of models-cache.json (optional snapshot)
    stats,          \* ModelCache.stats
    clock,          \* Date.now() seen by the cache
    calls,          \* history: log of the operations performed on the cache
    \* ---- model resolver ----
    config,         \* the WavespeedConfig the process loaded (optional)
    env,            \* process.env
    resolverCall,   \* the last resolver operation and its outcome
    \* ---- HTTP client ----
    http,           \* one submitTask / getResult call: its response and outcome
    \* ---- recommended models ----
    popularModels,          \* ModelCache.popularModels (optional list)
    popularModelsFetchedAt, \* ModelCache.popularModelsFetchedAt
    recoCall,               \* the last call of the recommended-models accessor
    \* ---- MCP response formatting ----
    mcp             \* one formatForMCP call: its inputs and its response

taskVars == <<impl, op, pc, now, start, netErrors, created, pollOutcome, thrown, opResult, hist>>
cacheVars == <<data, memoryLoadedAt, file, stats, clock, calls>>
resolverVars == <<config, env, resolverCall>>
httpVars == <<http>>
recoVars == <<popularModels, popularModelsFetchedAt, recoCall>>
mcpVars == <<mcp>>
vars == <<impl, op, pc, now, start, netErrors, created, pollOutcome, thrown, opResult, hist,
          data, memoryLoadedAt, file, stats, clock, calls, config, env, resolverCall, http,
          popularModels, popularModelsFetchedAt, recoCall, mcp>>

----------------------------------------------------------------------------
(* Bounds of the model.  Times are in units of one poll interval.          *)

\* intervalMs: the wait between two polls (2000 / 2500 ms in the source)
IntervalMs == 1
\* maxDurationMs / timeoutMs: the wall-clock ceiling, in poll intervals
TimeoutMs == 7
\* longest time one getResult round trip takes
MaxLatency == 1
\* Date.now() when the orchestrator is invoked
Epoch == 5
\* the history counters okPolls and failures stop counting here
MaxCounted == 4

\* opts.maxNetworkRetries ?? 3
DefaultMaxNetRetries == 3

Min(a, b) == IF a < b THEN a ELSE b

\* optional values: <<>> is undefined/null, <<v>> is v
Absent == <<>>
Some(v) == <<v>>
IsSome(o) == Len(o) = 1
Get(o) == o[1]

----------------------------------------------------------------------------
(* Task records and HTTP responses                                         *)

\* JobStatus of api/types.ts, plus "succeeded", the value the poll loops of
\* the "model" generation compare against.
JobStatus == {"created", "processing", "completed", "failed"}
WireStatus == JobStatus \cup {"succeeded"}

\* terminal statuses named by the specification
TerminalSet == {"completed", "succeeded", "failed"}

TaskIds == {"t1", "t2"}
ImgUrl == "http://img/1.png"
NsfwMsg == "nsfw content blocked"

\* TaskData: outputs and error are optional fields
TaskData(id, status, outputs, error) ==
    [id |-> id, status |-> status, outputs |-> outputs, error |-> error]

\* records a remote task can answer with for task id
RecordsFor(id) ==
    { TaskData(id, s, Absent, Absent) : s \in {"created", "processing"} }
    \cup { TaskData(id, s, o, Absent) :
             s \in {"completed", "succeeded"}, o \in {Absent, Some(<<ImgUrl>>)} }
    \cup { TaskData(id, "failed", Absent, e) : e \in {Absent, Some(""), Some(NsfwMsg)} }

\* what fetch() can come back with: a 2xx JSON body holding a record (bare or
\* wrapped as {data: record}), a non-2xx JSON body, a body that is not JSON,
\* or no body at all.  hasText: the body text is not empty; json: JSON.parse
\* accepts it; body: the parsed value (the record itself, or [data |-> record]).
\* res.ok: the status is in the range 200-299
IsOk(status) == status \in 200..299
OkResponse(rec, wrapped) ==
    [ok |-> TRUE, status |-> 200, hasText |-> TRUE, json |-> TRUE,
     body |-> IF wrapped THEN [data |-> rec] ELSE rec, statusText |-> "OK"]
ErrResponse(status, error, message) ==
    [ok |-> IsOk(status), status |-> status, hasText |-> TRUE, json |-> TRUE,
     body |-> [error |-> error, message |-> message], statusText |-> "Internal Server Error"]
NonJsonResponse(status) ==
    [ok |-> IsOk(status), status |-> status, hasText |-> TRUE, json |-> FALSE,
     body |-> [text |-> "<html>"], statusText |-> "Bad Gateway"]
EmptyResponse(status) ==
    [ok |-> IsOk(status), status |-> status, hasText |-> FALSE, json |-> FALSE,
     body |-> <<>>, statusText |-> "No Content"]

ResponsesFor(id) ==
    { OkResponse(r, w) : r \in RecordsFor(id), w \in BOOLEAN }
    \cup { ErrResponse(500, e, m) : e \in {Absent, Some("boom")}, m \in {Absent, Some("msg")} }
    \cup { NonJsonResponse(s) : s \in {200, 502} }

\* what the submission endpoint answers: the same failures, or the record of
\* the task it just created (the orchestrators read nothing but its id)
SubmitResponsesFor(id) ==
    { OkResponse(TaskData(id, "created", Absent, Absent), w) : w \in BOOLEAN }
    \cup { r \in ResponsesFor(id) : ~r.ok \/ ~r.json }

\* json[name] of a parsed object: Absent (undefined) for a field it lacks
Field(json, name) == IF name \in DOMAIN json THEN json[name] ELSE Absent

\* errorBody?.error || errorBody?.message || res.statusText
BestMessage(json, statusText) ==
    IF IsSome(Field(json, "error")) /\ Get(Field(json, "error")) # ""
    THEN Get(Field(json, "error"))
    ELSE IF IsSome(Field(json, "message")) /\ Get(Field(json, "message")) # ""
    THEN Get(Field(json, "message"))
    ELSE statusText

\* text ? JSON.parse(text) : {} when it does not throw; {} is the empty record
EmptyObject == <<>>
ParsedBody(res) == IF res.hasText THEN res.body ELSE EmptyObject

\* mutant: the envelope is handed back as it came
UnwrapNever(json) == json

\* json && typeof json === "object" && "data" in json ? json.data : json
Unwrap(json) == IF "data" \in DOMAIN json THEN json.data ELSE json

\* httpJson: the record, or the Error thrown.  An error message is kept as
\* the tuple <<text, number, text>> of the parts the source concatenates.
\* mutant: the status is looked at before the body is parsed
httpJsonStatusFirst(res) ==
    IF ~res.ok
    THEN [threw |-> TRUE,
          msg |-> <<"HTTP", res.status,
                    BestMessage(IF res.hasText /\ res.json THEN res.body ELSE EmptyObject,
                                res.statusText)>>]
    ELSE IF res.hasText /\ ~res.json
    THEN [threw |-> TRUE, msg |-> <<"Non JSON response with status", res.status, "">>]
    ELSE [threw |-> FALSE, rec |-> Unwrap(ParsedBody(res))]

httpJson(res) ==
    IF res.hasText /\ ~res.json
    THEN [threw |-> TRUE, msg |-> <<"Non JSON response with status", res.status, "">>]
    ELSE IF ~res.ok
    THEN [threw |-> TRUE,
          msg |-> <<"HTTP", res.status, BestMessage(ParsedBody(res), res.statusText)>>]
    ELSE [threw |-> FALSE, rec |-> Unwrap(ParsedBody(res))]

\* the Error a failed fetch() rejects with (network down, DNS, reset)
NetworkErrorMsg == <<"fetch failed", 0, "">>

----------------------------------------------------------------------------
(* pollUntilDone                                                           *)

Impls == {"model", "retry"}

\* the status test that ends the poll loop:
\*   model: data.status === "succeeded" || data.status === "failed"
\*   retry: data.status === "completed" || data.status === "failed"
IsDone(i, status) ==
    IF i = "model" THEN status \in {"succeeded", "failed"}
    ELSE status \in {"completed", "failed"}

\* mutant: the ceiling test lets one more interval pass
TimedOutLate(elapsed) == elapsed > TimeoutMs + IntervalMs

\* the loop-head test: now - start > maxDurationMs
TimedOut(elapsed) == elapsed > TimeoutMs

\* the Error thrown at the ceiling
TimeoutMsg(i, id) ==
    IF i = "model" THEN <<"Polling timed out after", TimeoutMs, id>>
    ELSE <<"Polling timed out", 0, "">>

\* retry: netErrors > maxNetRetries rethrows; the "model" generation has no
\* try/catch around getResult, so every fetch error leaves the loop
RethrowsFetchError(i, errorsSoFar) ==
    IF i = "model" THEN TRUE ELSE errorsSoFar > DefaultMaxNetRetries

\* retry: const backoff = interval * Math.min(4, netErrors)
Backoff(errorsSoFar) == IntervalMs * Min(4, errorsSoFar)

\* mutant: the counter is not reset after a successful poll
NetErrorsKept(n) == n

\* retry: after the steady wait of a non-terminal poll, netErrors = 0
NetErrorsAfterWait(n) == 0

----------------------------------------------------------------------------
(* Operation orchestrators                                                 *)

Ops == {"generateImage", "editImage", "generateSequential", "editSequential"}

\* final.error || "<default>": the default of each orchestrator
DefaultFailMsg(i, o) ==
    IF i = "retry" \/ o = "generateImage" THEN "Task failed"
    ELSE IF o = "generateSequential" THEN "Generation failed"
    ELSE "Edit failed"

\* mutant: the default replaces the record's message
OrElseDefault(optStr, dflt) == dflt

\* a || b on an optional string: undefined, null and "" are falsy
OrElse(optStr, dflt) == IF IsSome(optStr) /\ Get(optStr) # "" THEN Get(optStr) ELSE dflt

\* final.outputs || []
OutputsOrEmpty(optOutputs) == IF IsSome(optOutputs) THEN Get(optOutputs) ELSE <<>>

OperationResult(success, taskId, status, outputs, error) ==
    [success |-> success, taskId |-> taskId, status |-> status, outputs |-> outputs,
     error |-> error]

\* the branch taken after pollUntilDone returned final
ResultOfFinal(i, o, final) ==
    IF final.status = "failed"
    THEN OperationResult(FALSE, final.id, "failed", <<>>,
                         Some(<<OrElse(final.error, DefaultFailMsg(i, o)), 0, "">>))
    ELSE OperationResult(TRUE, final.id, "completed", OutputsOrEmpty(final.outputs), Absent)

\* mutant: the catch branch drops the message
ResultOfExceptionSilent(msg) ==
    [success |-> FALSE, taskId |-> "", status |-> "failed", outputs |-> <<>>, error |-> Absent]

\* the catch branch: error is (err as Error).message
ResultOfException(msg) == OperationResult(FALSE, "", "failed", <<>>, Some(msg))

----------------------------------------------------------------------------
(* Task lifecycle: state machine                                           *)

\* history of one invocation:
\*   submits: submissions issued;
\*   okPolls: polls answered with a record that did not end the loop
\*     (counted up to MaxCounted);
\*   failures: getResult calls that threw (counted up to MaxCounted);
\*   run: length of the current run of consecutive failed getResult calls;
\*   sawTerminal: some fetched record had a status in TerminalSet;
\*   fetchAfterTerminal: a getResult was issued after such a record;
\*   script: "pre" while every poll answered created/processing, "completed"
\*     once the next poll answered completed with outputs and every poll
\*     after it did the same, "off" otherwise.
Hist0 == [submits |-> 0, okPolls |-> 0, failures |-> 0, run |-> 0,
          sawTerminal |-> FALSE, fetchAfterTerminal |-> FALSE, script |-> "pre"]

ScriptAfter(script, rec) ==
    IF script = "pre" /\ rec.status \in {"created", "processing"} THEN "pre"
    ELSE IF script \in {"pre", "completed"} /\ rec.status = "completed"
            /\ rec.outputs = Some(<<ImgUrl>>) THEN "completed"
    ELSE "off"

Pending == [kind |-> "pending"]
Returned(rec) == [kind |-> "returned", rec |-> rec]
Threw(what, msg) == [kind |-> "threw", what |-> what, msg |-> msg]

TaskInit ==
    /\ impl \in Impls
    /\ op \in Ops
    /\ pc = "idle"
    /\ now = Epoch
    /\ start = 0
    /\ netErrors = 0
    /\ created = Absent
    /\ pollOutcome = Pending
    /\ thrown = Absent
    /\ opResult = Absent
    /\ hist = Hist0

\* pollUntilDone throws: the orchestrator's catch turns it into a result
PollThrows(what, msg) ==
    /\ pollOutcome' = Threw(what, msg)
    /\ thrown' = Some(msg)
    /\ opResult' = Some(ResultOfException(msg))
    /\ pc' = "done"

\* await submitTask(model, endpoint, payload) failing: HTTP error or non-JSON body
\* (httpJson throws) or a rejected fetch; the catch branch resolves the call
SubmitFails ==
    /\ UNCHANGED <<cacheVars, resolverVars, httpVars, recoVars, mcpVars>>
    /\ pc = "idle"
    /\ \E id \in TaskIds :
         \E msg \in {httpJson(r).msg : r \in {x \in SubmitResponsesFor(id) : httpJson(x).threw}}
                     \cup {NetworkErrorMsg} :
            /\ thrown' = Some(msg)
            /\ opResult' = Some(ResultOfException(msg))
    /\ pc' = "done"
    /\ hist' = [hist EXCEPT !.submits = @ + 1]
    /\ UNCHANGED <<impl, op, now, start, netErrors, created, pollOutcome>>

\* await submitTask(...) returning created; pollUntilDone is entered:
\* const start = Date.now(); let netErrors = 0
SubmitOk ==
    /\ UNCHANGED <<cacheVars, resolverVars, httpVars, recoVars, mcpVars>>
    /\ pc = "idle"
    /\ \E id \in TaskIds :
         \E res \in {x \in SubmitResponsesFor(id) : ~httpJson(x).threw} :
            created' = Some(httpJson(res).rec)
    /\ start' = now
    /\ netErrors' = 0
    /\ pc' = "loop"
    /\ hist' = [hist EXCEPT !.submits = @ + 1]
    /\ UNCHANGED <<impl, op, now, pollOutcome, thrown, opResult>>

\* mutant: the timeout is raised inside the try block, so the catch branch
\* counts it as a network error and retries it
PollTimeoutRetried ==
    /\ UNCHANGED <<cacheVars, resolverVars, httpVars, recoVars, mcpVars>>
    /\ pc = "loop"
    /\ TimedOut(now - start)
    /\ IF RethrowsFetchError(impl, netErrors + 1)
       THEN PollThrows("timeout", TimeoutMsg(impl, Get(created).id))
       ELSE /\ pc' = "backoff"
            /\ UNCHANGED <<pollOutcome, thrown, opResult>>
    /\ netErrors' = netErrors + 1
    /\ UNCHANGED <<impl, op, now, start, created, hist>>

\* loop head, ceiling exceeded: throw new Error("Polling timed out ...")
PollTimeout ==
    /\ UNCHANGED <<cacheVars, resolverVars, httpVars, recoVars, mcpVars>>
    /\ pc = "loop"
    /\ TimedOut(now - start)
    /\ PollThrows("timeout", TimeoutMsg(impl, Get(created).id))
    /\ UNCHANGED <<impl, op, now, start, netErrors, created, hist>>

\* loop head, within the ceiling: getResult(id) is issued
PollFetch ==
    /\ UNCHANGED <<cacheVars, resolverVars, httpVars, recoVars, mcpVars>>
    /\ pc = "loop"
    /\ ~TimedOut(now - start)
    /\ pc' = "fetching"
    /\ hist' = [hist EXCEPT !.fetchAfterTerminal = @ \/ hist.sawTerminal]
    /\ UNCHANGED <<impl, op, now, start, netErrors, created, pollOutcome, thrown, opResult>>

\* getResult resolves with a record: return it if the status test says so,
\* otherwise wait for the interval
FetchResolves ==
    /\ UNCHANGED <<cacheVars, resolverVars, httpVars, recoVars, mcpVars>>
    /\ pc = "fetching"
    /\ \E lat \in 0..MaxLatency :
         \E res \in {x \in ResponsesFor(Get(created).id) : ~httpJson(x).threw} :
            LET rec == httpJson(res).rec IN
            /\ now' = now + lat
            /\ hist' = [hist EXCEPT !.run = 0,
                                    !.okPolls = IF IsDone(impl, rec.status) THEN @
                                                ELSE Min(@ + 1, MaxCounted),
                                    !.sawTerminal = @ \/ rec.status \in TerminalSet,
                                    !.script = ScriptAfter(@, rec)]
            /\ IF IsDone(impl, rec.status)
               THEN /\ pollOutcome' = Returned(rec)
                    /\ opResult' = Some(ResultOfFinal(impl, op, rec))
                    /\ pc' = "done"
                    /\ UNCHANGED thrown
               ELSE /\ pc' = "sleeping"
                    /\ UNCHANGED <<pollOutcome, thrown, opResult>>
    /\ UNCHANGED <<impl, op, start, netErrors, created>>

\* getResult throws (rejected fetch, HTTP error, non-JSON body): the "model"
\* generation lets it escape; "retry" counts it and rethrows past the ceiling
FetchFails ==
    /\ UNCHANGED <<cacheVars, resolverVars, httpVars, recoVars, mcpVars>>
    /\ pc = "fetching"
    /\ \E lat \in 0..MaxLatency :
         \E msg \in {httpJson(r).msg :
                       r \in {x \in ResponsesFor(Get(created).id) : httpJson(x).threw}}
                     \cup {NetworkErrorMsg} :
            /\ now' = now + lat
            /\ IF RethrowsFetchError(impl, netErrors + 1)
               THEN PollThrows("fetch", msg)
               ELSE /\ pc' = "backoff"
                    /\ UNCHANGED <<pollOutcome, thrown, opResult>>
    /\ netErrors' = IF impl = "retry" THEN netErrors + 1 ELSE netErrors
    /\ hist' = [hist EXCEPT !.failures = Min(@ + 1, MaxCounted), !.run = @ + 1, !.script = "off"]
    /\ UNCHANGED <<impl, op, start, created>>

\* mutant: the wait after a non-terminal poll takes no time
SleepNoWait ==
    /\ UNCHANGED <<cacheVars, resolverVars, httpVars, recoVars, mcpVars>>
    /\ pc = "sleeping"
    /\ netErrors' = IF impl = "retry" THEN NetErrorsAfterWait(netErrors) ELSE netErrors
    /\ pc' = "loop"
    /\ UNCHANGED <<impl, op, now, start, created, pollOutcome, thrown, opResult, hist>>

\* the steady wait after a non-terminal poll; retry: then netErrors = 0
Sleep ==
    /\ UNCHANGED <<cacheVars, resolverVars, httpVars, recoVars, mcpVars>>
    /\ pc = "sleeping"
    /\ now' = now + IntervalMs
    /\ netErrors' = IF impl = "retry" THEN NetErrorsAfterWait(netErrors) ELSE netErrors
    /\ pc' = "loop"
    /\ UNCHANGED <<impl, op, start, created, pollOutcome, thrown, opResult, hist>>

\* mutant: after the backoff the operation starts over with a new submission
BackoffWaitResubmits ==
    /\ UNCHANGED <<cacheVars, resolverVars, httpVars, recoVars, mcpVars>>
    /\ pc = "backoff"
    /\ now' = now + Backoff(netErrors)
    /\ pc' = "idle"
    /\ UNCHANGED <<impl, op, start, netErrors, created, pollOutcome, thrown, opResult, hist>>

\* retry: await sleep(backoff) in the catch branch
BackoffWait ==
    /\ UNCHANGED <<cacheVars, resolverVars, httpVars, recoVars, mcpVars>>
    /\ pc = "backoff"
    /\ now' = now + Backoff(netErrors)
    /\ pc' = "loop"
    /\ UNCHANGED <<impl, op, start, netErrors, created, pollOutcome, thrown, opResult, hist>>

Next ==
    \/ SubmitFails
    \/ SubmitOk
    \/ PollTimeout
    \/ PollFetch
    \/ FetchResolves
    \/ FetchFails
    \/ Sleep
    \/ BackoffWait

----------------------------------------------------------------------------
(* Model metadata cache: ModelCache                                        *)

\* CACHE_VERSION of cache/types.ts
CACHE_VERSION == 1
\* memoryTtlMs and fileTtlMs (5 minutes and 24 hours in the source), in ticks
MemoryTtlMs == 1
FileTtlMs == 3
\* the cache clock stops here, and so does the number of cache operations
MaxClock == 6
MaxOps == 4

\* the catalogue the live source answers with at time t: each tick has its own
LiveCatalogue(t) == t

\* ModelCacheData as transformAndIndex stamps it
Snapshot(fetchedAt, models) ==
    [version |-> CACHE_VERSION, fetchedAt |-> fetchedAt, ttlMs |-> FileTtlMs, models |-> models]

\* a cache file written by an older release (or one that does not parse):
\* loadFromFile answers null for it
OldVersionFile == [version |-> 0, fetchedAt |-> 0, ttlMs |-> FileTtlMs, models |-> 0]

\* CacheStats: hitCount, missCount and source.  lastFetchMs and cacheAgeMs
\* are written for display and read by no operation (getStats recomputes
\* the age); they are left out.
Stats0 == [hitCount |-> 0, missCount |-> 0, source |-> "none"]

\* the fields of a ModelCache instance together with the cache file
CacheState == [data |-> data, memoryLoadedAt |-> memoryLoadedAt, file |-> file, stats |-> stats]

\* mutant: a snapshot exactly memoryTtlMs old already counts as stale
isMemoryStaleAtTtl(d, loadedAt, t) ==
    IF d = Absent \/ loadedAt = 0 THEN TRUE ELSE t - loadedAt >= MemoryTtlMs

\* isMemoryStale: !this.data || !this.memoryLoadedAt, else age > memoryTtlMs
isMemoryStale(d, loadedAt, t) ==
    IF d = Absent \/ loadedAt = 0 THEN TRUE ELSE t - loadedAt > MemoryTtlMs

\* mutant: the file is aged against the memory TTL
isFileStaleByMemoryTtl(snap, t) == t - snap.fetchedAt > MemoryTtlMs

\* isFileStale: Date.now() - data.fetchedAt > data.ttlMs
isFileStale(snap, t) == t - snap.fetchedAt > snap.ttlMs

\* loadFromFile: null when the file is missing or its version differs
loadFromFile(f) ==
    IF f = Absent THEN Absent
    ELSE IF Get(f).version # CACHE_VERSION THEN Absent
    ELSE f

\* saveToFile: a failed write is swallowed and leaves the file as it was
saveToFile(f, snap, writeOk) == IF writeOk THEN Some(snap) ELSE f

\* mutant: refresh rethrows even when a snapshot is held
refreshRethrows(c, t, live, writeOk) ==
    IF IsSome(live)
    THEN [c |-> [data |-> Some(Snapshot(t, Get(live))),
                 memoryLoadedAt |-> t,
                 file |-> saveToFile(c.file, Snapshot(t, Get(live)), writeOk),
                 stats |-> [c.stats EXCEPT !.source = "api"]],
          threw |-> FALSE]
    ELSE [c |-> c, threw |-> TRUE]

\* refresh(apiKey): live is the catalogue the API call returned, or Absent
\* when it threw.  Result: the new cache state and whether refresh rethrew.
refresh(c, t, live, writeOk) ==
    IF IsSome(live)
    THEN [c |-> [data |-> Some(Snapshot(t, Get(live))),
                 memoryLoadedAt |-> t,
                 file |-> saveToFile(c.file, Snapshot(t, Get(live)), writeOk),
                 stats |-> [c.stats EXCEPT !.source = "api"]],
          threw |-> FALSE]
    ELSE [c |-> c, threw |-> c.data = Absent]

\* this.data?.models ?? []
ModelsOf(d) == IF IsSome(d) THEN Get(d).models ELSE 0

\* the forceRefresh branch of getModels
getModelsForced(c, t, live, writeOk) ==
    LET r == refresh(c, t, live, writeOk) IN
    IF r.threw
    THEN [c |-> r.c, threw |-> TRUE, ret |-> Absent, fetched |-> TRUE]
    ELSE [c |-> [r.c EXCEPT !.stats.missCount = @ + 1],
          threw |-> FALSE, ret |-> Some(ModelsOf(r.c.data)), fetched |-> TRUE]

\* the tail of getModels: count the miss, refresh, return
getModelsRefresh(c, t, live, writeOk) ==
    LET counted == [c EXCEPT !.stats.missCount = @ + 1]
        r == refresh(counted, t, live, writeOk) IN
    IF r.threw
    THEN [c |-> r.c, threw |-> TRUE, ret |-> Absent, fetched |-> TRUE]
    ELSE [c |-> r.c, threw |-> FALSE, ret |-> Some(ModelsOf(r.c.data)), fetched |-> TRUE]

\* getModels(apiKey, {forceRefresh}): the new cache state, what the call
\* returned or that it threw, and whether it called the live source
getModels(c, t, force, live, writeOk) ==
    IF force THEN getModelsForced(c, t, live, writeOk)
    ELSE IF IsSome(c.data) /\ ~isMemoryStale(c.data, c.memoryLoadedAt, t)
    THEN [c |-> [c EXCEPT !.stats.hitCount = @ + 1,
                          !.stats.source = "memory"],
          threw |-> FALSE, ret |-> Some(Get(c.data).models), fetched |-> FALSE]
    ELSE IF c.data = Absent
    THEN LET fileData == loadFromFile(c.file) IN
         IF IsSome(fileData) /\ ~isFileStale(Get(fileData), t)
         THEN [c |-> [c EXCEPT !.data = fileData,
                               !.memoryLoadedAt = t,
                               !.stats.hitCount = @ + 1,
                               !.stats.source = "file"],
               threw |-> FALSE, ret |-> Some(Get(fileData).models), fetched |-> FALSE]
         ELSE IF IsSome(fileData)
         THEN getModelsRefresh([c EXCEPT !.data = fileData, !.memoryLoadedAt = t],
                               t, live, writeOk)
         ELSE getModelsRefresh(c, t, live, writeOk)
    ELSE getModelsRefresh(c, t, live, writeOk)

\* mutant: invalidate unlinks the file and keeps the snapshot in memory
invalidateFileOnly(c, unlinkOk) ==
    [c EXCEPT !.file = IF unlinkOk THEN Absent ELSE @]

\* invalidate(): memory cleared, file unlinked; a failed unlink is swallowed
invalidate(c, unlinkOk) ==
    [c EXCEPT !.data = Absent,
              !.memoryLoadedAt = 0,
              !.file = IF unlinkOk THEN Absent ELSE @]

\* the query operations (getModelsByType, searchModels, filterModels,
\* getTypes, getTypeCounts, getModelCount): each answers from this.data, and
\* with the empty value when there is none.  A loaded catalogue has models
\* and types that match.
queryModels(d) == IF d = Absent THEN {} ELSE {Get(d).models}
getModelCount(d) == IF d = Absent THEN 0 ELSE Cardinality({Get(d).models})

\* log entry of one cache operation: the state it found (pre), when it ran,
\* whether it called the live source, whether that call failed, and what the
\* operation returned or that it threw
Entry(name, force, live, r) ==
    [op |-> name, force |-> force, at |-> clock, pre |-> CacheState,
     fetched |-> r.fetched, liveFailed |-> r.fetched /\ live = Absent,
     threw |-> r.threw, ret |-> r.ret]

NoCall == [fetched |-> FALSE, threw |-> FALSE, ret |-> Absent]

\* what the log keeps of the operation before the last one
Summary(e) ==
    [op |-> e.op, force |-> e.force, at |-> e.at, fetched |-> e.fetched, threw |-> e.threw,
     onEmpty |-> e.pre.data = Absent /\ loadFromFile(e.pre.file) = Absent]

NoEntry == [op |-> "none", force |-> FALSE, at |-> 0, pre |-> [data |-> Absent,
            memoryLoadedAt |-> 0, file |-> Absent, stats |-> Stats0],
            fetched |-> FALSE, liveFailed |-> FALSE, threw |-> FALSE, ret |-> Absent]

\* the log: the number of operations so far, the last one, and a summary
\* of the one before it
Logged(e) == [n |-> calls.n + 1, prev |-> Summary(calls.last), last |-> e]

CacheInit ==
    /\ data = Absent
    /\ memoryLoadedAt = 0
    /\ file \in {Absent, Some(OldVersionFile)}
    /\ stats = Stats0
    /\ clock = 1
    /\ calls = [n |-> 0, prev |-> Summary(NoEntry), last |-> NoEntry]

Apply(c) ==
    /\ data' = c.data
    /\ memoryLoadedAt' = c.memoryLoadedAt
    /\ file' = c.file
    /\ stats' = c.stats

\* one call of getModels, from entry to return or throw
GetModels ==
    /\ UNCHANGED <<taskVars, resolverVars, httpVars, recoVars, mcpVars>>
    /\ calls.n < MaxOps
    /\ \E force \in BOOLEAN, writeOk \in BOOLEAN :
         \E live \in {Absent, Some(LiveCatalogue(clock))} :
            LET r == getModels(CacheState, clock, force, live, writeOk) IN
            /\ Apply(r.c)
            /\ calls' = Logged(Entry("getModels", force, live, r))
    /\ UNCHANGED clock

Invalidate ==
    /\ UNCHANGED <<taskVars, resolverVars, httpVars, recoVars, mcpVars>>
    /\ calls.n < MaxOps
    /\ \E unlinkOk \in BOOLEAN : Apply(invalidate(CacheState, unlinkOk))
    /\ calls' = Logged(Entry("invalidate", FALSE, Absent, NoCall))
    /\ UNCHANGED clock

\* resetInstance() followed by getInstance(), or a new process: a fresh
\* instance over the same cache directory
ResetInstance ==
    /\ UNCHANGED <<taskVars, resolverVars, httpVars, recoVars, mcpVars>>
    /\ calls.n < MaxOps
    /\ data' = Absent
    /\ memoryLoadedAt' = 0
    /\ stats' = Stats0
    /\ calls' = Logged(Entry("reset", FALSE, Absent, NoCall))
    /\ UNCHANGED <<file, clock>>

Tick ==
    /\ UNCHANGED <<taskVars, resolverVars, httpVars, recoVars, mcpVars>>
    /\ clock < MaxClock
    /\ clock' = clock + 1
    /\ UNCHANGED <<data, memoryLoadedAt, file, stats, calls>>

NextCache ==
    \/ GetModels
    \/ Invalidate
    \/ ResetInstance
    \/ Tick

----------------------------------------------------------------------------
(* Model resolver: resolveModel, resolveFromConfigModel, listModels        *)

\* BUILTIN_MODEL_BASE and the defaults resolveFromConfigModel fills in
BUILTIN_MODEL_ID == "seedream-v4"
NativeProvider == "wavespeed"
NativeBaseUrl == "https://api.wavespeed.ai"
NativeKeyEnv == "WAVESPEED_API_KEY"
BuiltinModelName == "bytedance/seedream-v4"

\* MODEL_REGISTRY: id -> provider, modelName, apiBaseUrl (declared by no entry)
MODEL_REGISTRY ==
    [id \in {"seedream-v4", "seedream-v3.1"} |->
        [provider |-> NativeProvider,
         modelName |-> IF id = "seedream-v4" THEN "bytedance/seedream-v4"
                       ELSE "bytedance/seedream-v3.1",
         apiBaseUrl |-> Absent]]

\* mutant: the registry is never consulted
getRegistryModelNone(id) == Absent

\* getRegistryModel: MODEL_REGISTRY.find((m) => m.id === id)
getRegistryModel(id) ==
    IF id \in DOMAIN MODEL_REGISTRY THEN Some(MODEL_REGISTRY[id]) ELSE Absent

\* the names a config can give to an alias, and the ids a caller can name
AliasIds == {"seedream-v4", "alt"}
ModelIds == {"seedream-v4", "seedream-v3.1", "alt", "ghost"}
Commands == {"generate", "edit"}
EnvNames == {NativeKeyEnv, "ALT_KEY"}
AltBaseUrl == "https://x.test"
AltModelName == "vendor/alt-model"

\* JavaScript truthiness of an optional string: defined and not ""
Truthy(optStr) == IsSome(optStr) /\ Get(optStr) # ""

\* ModelConfig entries of config.models
ModelConfigs ==
    [provider : {NativeProvider, "custom"},
     apiBaseUrl : {Absent, Some(""), Some(AltBaseUrl)},
     apiKeyEnv : {Absent, Some("ALT_KEY")},
     modelName : {Some(AltModelName)}]

\* WavespeedConfig: models maps each alias id to its entry or to Absent (no
\* such alias); defaults.globalModel and defaults.commands are optional ids
Configs ==
    [models : [AliasIds -> {Absent} \cup {Some(m) : m \in ModelConfigs}],
     globalModel : {Absent} \cup {Some(id) : id \in ModelIds \ {"seedream-v3.1"}},
     commands : {[c \in Commands |-> IF c = "generate" THEN d ELSE Absent] :
                    d \in {Absent} \cup {Some(id) : id \in ModelIds \ {"seedream-v3.1"}}}]

\* process.env restricted to the variables a model can name
Envs ==
    {[n \in EnvNames |-> IF n = NativeKeyEnv THEN w ELSE a] :
        w \in {Absent, Some("ws-key")}, a \in {Absent, Some(""), Some("secret1")}}

NoEnv == [n \in EnvNames |-> Absent]

\* new ConfigError(message, exitCode): the message is kept as its fixed text
\* and the values interpolated into it
ConfigError(message, exitCode) == [message |-> message, exitCode |-> exitCode]

Resolved(model) == [ok |-> TRUE, model |-> model]
Failed(error) == [ok |-> FALSE, error |-> error]

\* config?.models?.[id]
ConfigModel(cfg, id) ==
    IF cfg = Absent THEN Absent
    ELSE IF id \in AliasIds THEN Get(cfg).models[id]
    ELSE Absent

\* mutant: a missing base URL is replaced by the native one for every provider
resolveFromConfigModelDefaulting(id, model, environment) ==
    LET apiKeyEnv == IF Truthy(model.apiKeyEnv) THEN model.apiKeyEnv
                     ELSE IF model.provider = NativeProvider THEN Some(NativeKeyEnv)
                     ELSE Absent
        apiBaseUrl == IF Truthy(model.apiBaseUrl) THEN model.apiBaseUrl
                      ELSE Some(NativeBaseUrl)
    IN  IF apiKeyEnv = Absent
        THEN Failed(ConfigError(<<"Model is missing apiKeyEnv", id>>, 3))
        ELSE IF ~Truthy(environment[Get(apiKeyEnv)])
        THEN Failed(ConfigError(<<"Environment variable is not set for model",
                                  Get(apiKeyEnv), id>>, 2))
        ELSE Resolved([id |-> id,
                       provider |-> model.provider,
                       apiBaseUrl |-> Get(apiBaseUrl),
                       apiKey |-> Get(environment[Get(apiKeyEnv)]),
                       apiKeyEnv |-> Get(apiKeyEnv),
                       modelName |-> model.modelName,
                       isFromConfig |-> TRUE])

\* mutant: a base URL that is present but empty is taken as it is
resolveFromConfigModelLax(id, model, environment) ==
    LET apiKeyEnv == IF Truthy(model.apiKeyEnv) THEN model.apiKeyEnv
                     ELSE IF model.provider = NativeProvider THEN Some(NativeKeyEnv)
                     ELSE Absent
        apiBaseUrl == IF IsSome(model.apiBaseUrl) THEN model.apiBaseUrl
                      ELSE IF model.provider = NativeProvider THEN Some(NativeBaseUrl)
                      ELSE Absent
    IN  IF apiKeyEnv = Absent
        THEN Failed(ConfigError(<<"Model is missing apiKeyEnv", id>>, 3))
        ELSE IF ~Truthy(environment[Get(apiKeyEnv)])
        THEN Failed(ConfigError(<<"Environment variable is not set for model",
                                  Get(apiKeyEnv), id>>, 2))
        ELSE IF apiBaseUrl = Absent
        THEN Failed(ConfigError(<<"Model is missing apiBaseUrl", id>>, 3))
        ELSE Resolved([id |-> id,
                       provider |-> model.provider,
                       apiBaseUrl |-> Get(apiBaseUrl),
                       apiKey |-> Get(environment[Get(apiKeyEnv)]),
                       apiKeyEnv |-> Get(apiKeyEnv),
                       modelName |-> model.modelName,
                       isFromConfig |-> TRUE])

\* resolveFromConfigModel(id, model): apiKeyEnv, then the secret, then
\* apiBaseUrl; type and requestDefaults are copied through and left out
resolveFromConfigModel(id, model, environment) ==
    LET apiKeyEnv == IF Truthy(model.apiKeyEnv) THEN model.apiKeyEnv
                     ELSE IF model.provider = NativeProvider THEN Some(NativeKeyEnv)
                     ELSE Absent
        apiBaseUrl == IF Truthy(model.apiBaseUrl) THEN model.apiBaseUrl
                      ELSE IF model.provider = NativeProvider THEN Some(NativeBaseUrl)
                      ELSE Absent
    IN  IF apiKeyEnv = Absent
        THEN Failed(ConfigError(<<"Model is missing apiKeyEnv", id>>, 3))
        ELSE IF ~Truthy(environment[Get(apiKeyEnv)])
        THEN Failed(ConfigError(<<"Environment variable is not set for model",
                                  Get(apiKeyEnv), id>>, 2))
        ELSE IF apiBaseUrl = Absent
        THEN Failed(ConfigError(<<"Model is missing apiBaseUrl", id>>, 3))
        ELSE Resolved([id |-> id,
                       provider |-> model.provider,
                       apiBaseUrl |-> Get(apiBaseUrl),
                       apiKey |-> Get(environment[Get(apiKeyEnv)]),
                       apiKeyEnv |-> Get(apiKeyEnv),
                       modelName |-> model.modelName,
                       isFromConfig |-> TRUE])

\* the temporary model config resolveModel builds from a registry entry
FromRegistry(registryModel) ==
    [provider |-> registryModel.provider,
     apiBaseUrl |-> registryModel.apiBaseUrl,
     apiKeyEnv |-> Some(NativeKeyEnv),
     modelName |-> Some(registryModel.modelName)]

\* the errors of the three levels for an id found nowhere
UnknownModelError(level, commandName, id) ==
    IF level = "flag"
    THEN ConfigError(<<"Unknown model. Use --list-models to see available models.", id>>, 3)
    ELSE IF level = "command"
    THEN ConfigError(<<"Invalid config: defaults.commands refers to unknown model",
                       commandName, id>>, 3)
    ELSE ConfigError(<<"Invalid config: defaults.globalModel does not exist in models.", id>>, 3)

\* mutant: an id found nowhere falls through to the built-in fallback
resolveIdFallsThrough(level, commandName, id, cfg, environment) ==
    IF IsSome(ConfigModel(cfg, id))
    THEN resolveFromConfigModel(id, Get(ConfigModel(cfg, id)), environment)
    ELSE IF IsSome(getRegistryModel(id))
    THEN resolveFromConfigModel(id, FromRegistry(Get(getRegistryModel(id))), environment)
    ELSE IF Truthy(environment[NativeKeyEnv])
    THEN Resolved([id |-> BUILTIN_MODEL_ID,
                   provider |-> NativeProvider,
                   apiBaseUrl |-> NativeBaseUrl,
                   apiKey |-> Get(environment[NativeKeyEnv]),
                   apiKeyEnv |-> NativeKeyEnv,
                   modelName |-> Some(BuiltinModelName),
                   isFromConfig |-> FALSE])
    ELSE Failed(ConfigError(<<"Missing WAVESPEED_API_KEY for default Wavespeed model.">>, 2))

\* mutant: the registry is consulted before the config aliases
resolveIdRegistryFirst(level, commandName, id, cfg, environment) ==
    IF IsSome(getRegistryModel(id))
    THEN resolveFromConfigModel(id, FromRegistry(Get(getRegistryModel(id))), environment)
    ELSE IF IsSome(ConfigModel(cfg, id))
    THEN resolveFromConfigModel(id, Get(ConfigModel(cfg, id)), environment)
    ELSE Failed(UnknownModelError(level, commandName, id))

\* the block resolveModel repeats at each level: config alias, else registry
\* entry, else the level's error
resolveId(level, commandName, id, cfg, environment) ==
    IF IsSome(ConfigModel(cfg, id))
    THEN resolveFromConfigModel(id, Get(ConfigModel(cfg, id)), environment)
    ELSE IF IsSome(getRegistryModel(id))
    THEN resolveFromConfigModel(id, FromRegistry(Get(getRegistryModel(id))), environment)
    ELSE Failed(UnknownModelError(level, commandName, id))

\* mutant: the built-in descriptor is handed out without its secret check
BuiltinFallbackUnchecked(environment) ==
    Resolved([id |-> BUILTIN_MODEL_ID,
              provider |-> NativeProvider,
              apiBaseUrl |-> NativeBaseUrl,
              apiKey |-> IF IsSome(environment[NativeKeyEnv])
                         THEN Get(environment[NativeKeyEnv]) ELSE "",
              apiKeyEnv |-> NativeKeyEnv,
              modelName |-> Some(BuiltinModelName),
              isFromConfig |-> FALSE])

\* level 4 of resolveModel: BUILTIN_MODEL_BASE with the native secret
BuiltinFallback(environment) ==
    IF ~Truthy(environment[NativeKeyEnv])
    THEN Failed(ConfigError(<<"Missing WAVESPEED_API_KEY for default Wavespeed model.">>, 2))
    ELSE Resolved([id |-> BUILTIN_MODEL_ID,
                   provider |-> NativeProvider,
                   apiBaseUrl |-> NativeBaseUrl,
                   apiKey |-> Get(environment[NativeKeyEnv]),
                   apiKeyEnv |-> NativeKeyEnv,
                   modelName |-> Some(BuiltinModelName),
                   isFromConfig |-> FALSE])

\* config?.defaults?.commands?.[commandName] and config?.defaults?.globalModel
CmdDefaultId(cfg, commandName) ==
    IF cfg = Absent THEN Absent ELSE Get(cfg).commands[commandName]
GlobalDefaultId(cfg) ==
    IF cfg = Absent THEN Absent ELSE Get(cfg).globalModel

\* mutant: the global default is looked at before the command default
resolveModelGlobalFirst(commandName, cliModelFlag, cfg, environment) ==
    IF Truthy(cliModelFlag)
    THEN resolveId("flag", commandName, Get(cliModelFlag), cfg, environment)
    ELSE IF Truthy(GlobalDefaultId(cfg))
    THEN resolveId("global", commandName, Get(GlobalDefaultId(cfg)), cfg, environment)
    ELSE IF Truthy(CmdDefaultId(cfg, commandName))
    THEN resolveId("command", commandName, Get(CmdDefaultId(cfg, commandName)),
                   cfg, environment)
    ELSE BuiltinFallback(environment)

\* resolveModel(commandName, cliModelFlag, config)
resolveModel(commandName, cliModelFlag, cfg, environment) ==
    IF Truthy(cliModelFlag)
    THEN resolveId("flag", commandName, Get(cliModelFlag), cfg, environment)
    ELSE IF Truthy(CmdDefaultId(cfg, commandName))
    THEN resolveId("command", commandName, Get(CmdDefaultId(cfg, commandName)),
                   cfg, environment)
    ELSE IF Truthy(GlobalDefaultId(cfg))
    THEN resolveId("global", commandName, Get(GlobalDefaultId(cfg)), cfg, environment)
    ELSE BuiltinFallback(environment)

\* apiBaseUrl ?? "" and apiKeyEnv ?? ""
OrEmpty(optStr) == IF IsSome(optStr) THEN Get(optStr) ELSE ""

\* mutant: listModels fills the native defaults in for every provider
SummaryOfDefaulted(cfg, id, model) ==
    [id |-> id,
     provider |-> model.provider,
     apiBaseUrl |-> OrEmpty(IF ~Truthy(model.apiBaseUrl)
                            THEN Some(NativeBaseUrl) ELSE model.apiBaseUrl),
     modelName |-> model.modelName,
     apiKeyEnv |-> OrEmpty(IF ~Truthy(model.apiKeyEnv)
                           THEN Some(NativeKeyEnv) ELSE model.apiKeyEnv),
     isDefaultGlobal |-> cfg.globalModel = Some(id),
     defaultForCommands |-> {c \in Commands : cfg.commands[c] = Some(id)}]

\* the summary listModels pushes for one alias
SummaryOf(cfg, id, model) ==
    [id |-> id,
     provider |-> model.provider,
     apiBaseUrl |-> OrEmpty(IF ~Truthy(model.apiBaseUrl) /\ model.provider = NativeProvider
                            THEN Some(NativeBaseUrl) ELSE model.apiBaseUrl),
     modelName |-> model.modelName,
     apiKeyEnv |-> OrEmpty(IF ~Truthy(model.apiKeyEnv) /\ model.provider = NativeProvider
                           THEN Some(NativeKeyEnv) ELSE model.apiKeyEnv),
     isDefaultGlobal |-> cfg.globalModel = Some(id),
     defaultForCommands |-> {c \in Commands : cfg.commands[c] = Some(id)}]

\* the single summary listModels returns without a config
BuiltinSummary ==
    [id |-> BUILTIN_MODEL_ID,
     provider |-> NativeProvider,
     apiBaseUrl |-> NativeBaseUrl,
     modelName |-> Some(BuiltinModelName),
     apiKeyEnv |-> NativeKeyEnv,
     isDefaultGlobal |-> TRUE,
     defaultForCommands |-> Commands]

\* listModels(config): the summaries, indexed by the id they carry
listModels(cfg) ==
    IF cfg = Absent
    THEN [id \in {BUILTIN_MODEL_ID} |-> BuiltinSummary]
    ELSE [id \in {a \in AliasIds : IsSome(Get(cfg).models[a])} |->
             SummaryOf(Get(cfg), id, Get(Get(cfg).models[id]))]

\* the last resolver operation: its inputs and what it returned or threw
NoResolverCall == [op |-> "none"]

ResolverIdle ==
    /\ config = Absent
    /\ env = NoEnv
    /\ resolverCall = NoResolverCall

ResolverInit ==
    /\ config \in {Absent} \cup {Some(c) : c \in Configs}
    /\ env \in Envs
    /\ resolverCall = NoResolverCall

\* one call of resolveModel
ResolveModel ==
    /\ UNCHANGED <<taskVars, cacheVars, httpVars, recoVars, mcpVars>>
    /\ \E commandName \in Commands :
         \E cliModelFlag \in {Absent, Some("")} \cup {Some(id) : id \in ModelIds} :
            resolverCall' = [op |-> "resolveModel",
                     commandName |-> commandName,
                     cliModelFlag |-> cliModelFlag,
                     result |-> resolveModel(commandName, cliModelFlag, config, env)]
    /\ UNCHANGED <<config, env>>

\* one call of listModels; nothing in it throws
ListModels ==
    /\ UNCHANGED <<taskVars, cacheVars, httpVars, recoVars, mcpVars>>
    /\ resolverCall' = [op |-> "listModels", models |-> listModels(config)]
    /\ UNCHANGED <<config, env>>

NextResolve ==
    \/ ResolveModel
    \/ ListModels

----------------------------------------------------------------------------
(* HTTP client: submitTask and getResult, one call at a time               *)

\* every response the remote end can give to one call
HttpResponses ==
    UNION {ResponsesFor(id) : id \in TaskIds}
    \cup { ErrResponse(status, e, m) :
              status \in {400, 401},
              e \in {Absent, Some(""), Some("boom")}, m \in {Absent, Some("msg")} }
    \cup { NonJsonResponse(s) : s \in {200, 404, 500, 502} }
    \cup { EmptyResponse(s) : s \in {200, 204, 404, 500} }

HttpIdle == http = [phase |-> "idle"]

\* submitTask or getResult issues its fetch
HttpCall ==
    /\ UNCHANGED <<taskVars, cacheVars, resolverVars, recoVars, mcpVars>>
    /\ http.phase \in {"idle", "done"}
    /\ \E fn \in {"submitTask", "getResult"} :
         http' = [phase |-> "sent", fn |-> fn]

\* the fetch resolves and httpJson returns the record or throws
HttpRespond ==
    /\ UNCHANGED <<taskVars, cacheVars, resolverVars, recoVars, mcpVars>>
    /\ http.phase = "sent"
    /\ \E res \in HttpResponses :
         http' = [phase |-> "done", fn |-> http.fn, res |-> res, outcome |-> httpJson(res)]

NextHttp ==
    \/ HttpCall
    \/ HttpRespond

----------------------------------------------------------------------------
(* Recommended models: scrapePopularModels and                             *)
(* ModelCache.getRecommendedModels / getRecommendedModelsAsync             *)

\* the scrape loop stops once this many models were collected
MaxPopular == 15
\* fewer filtered entries than this and the fallback list is appended
RecommendedFloor == 3
\* slice(0, 10) of the returned list
RecommendedMax == 10
\* popularModelsTtlMs (24 hours in the source), in ticks
PopularModelsTtlMs == 2
\* number of /models/... links on the longest page served
MaxLinks == 18

\* a RecommendedModel: its id and the optional price.  type and desc are
\* display text copied through unchanged; they are left out.
Recommended(id) == [id |-> id, price |-> Absent]

FallbackIds ==
    << "bytedance/seedream-v4/edit",
       "google/nano-banana-pro/edit",
       "alibaba/wan-2.5/image-to-video",
       "bytedance/seedream-v4",
       "alibaba/wan-2.5/text-to-video",
       "wavespeed-ai/flux-dev" >>

FALLBACK_RECOMMENDED == [i \in 1..Len(FallbackIds) |-> Recommended(FallbackIds[i])]

\* the link at position i of the models page, in popularity order: the
\* first is a model of the fallback list, the third repeats the first, the
\* fourth is a collection link, the others are further models
CollectionLink == "wavespeed-ai/collections/flux"
PageLink(i) ==
    IF i = 1 THEN "bytedance/seedream-v4"
    ELSE IF i = 3 THEN "bytedance/seedream-v4"
    ELSE IF i = 4 THEN CollectionLink
    ELSE "vendor/model-" \o ToString(i)

\* modelId.includes("collection")
IsCollection(modelId) == modelId = CollectionLink

\* the pages served: the first n links, for a few lengths n
PageLengths == {0, 2, 6, 13, MaxLinks}
ModelsPage(n) == [i \in 1..n |-> PageLink(i)]

\* the outcomes of fetch("https://wavespeed.ai/models"): it throws, it
\* answers with an error status, or it answers with a page
PopularResponses ==
    {Absent, Some([ok |-> FALSE, links |-> <<>>])}
    \cup { Some([ok |-> TRUE, links |-> ModelsPage(n)]) : n \in PageLengths }

\* the loop of scrapePopularModels over the matches of linkPattern
RECURSIVE ExtractModels(_, _, _)
ExtractModels(links, i, models) ==
    IF i > Len(links) \/ ~(Len(models) < MaxPopular) THEN models
    ELSE IF (\E k \in 1..Len(models) : models[k].id = links[i]) \/ IsCollection(links[i])
         THEN ExtractModels(links, i + 1, models)
         ELSE ExtractModels(links, i + 1, Append(models, Recommended(links[i])))

scrapePopularModels(response) ==
    IF response = Absent THEN FALLBACK_RECOMMENDED
    ELSE IF ~Get(response).ok THEN FALLBACK_RECOMMENDED
    ELSE LET models == ExtractModels(Get(response).links, 1, <<>>) IN
         IF Len(models) > 0 THEN models ELSE FALLBACK_RECOMMENDED

\* a model of the live catalogue, reduced to the two fields read here
CatalogueModel(id, price) == [model_id |-> id, base_price |-> price]

\* the catalogues a snapshot can hold: some models of the fallback list
\* (priced by position), and none, every second or all of the further
\* models of the page (priced by position too)
FallbackSubsets ==
    { S \cup T : S \in SUBSET {1, 2, 4}, T \in {{}, {3, 5, 6}} }
PageSubsets ==
    { {}, {i \in 5..MaxLinks : i % 2 = 0}, {2} \cup (5..MaxLinks) }
Catalogues ==
    { {CatalogueModel(FallbackIds[j], j) : j \in F}
        \cup {CatalogueModel(PageLink(i), 10 + i) : i \in P} :
      F \in FallbackSubsets, P \in PageSubsets }

\* existingMap.has(id) and existingMap.get(id)
ExistingHas(models, id) == \E m \in models : m.model_id = id
ExistingGet(models, id) == CHOOSE m \in models : m.model_id = id

\* mutant: the entry is returned without its price
WithoutPrice(models, r) == r

\* { ...r, price: existingMap.get(r.id)?.base_price }
WithPrice(models, r) == [id |-> r.id, price |-> Some(ExistingGet(models, r.id).base_price)]

\* mutant: the list is returned whole
TakeAll(s, n) == s

\* Array.prototype.slice(0, n)
Take(s, n) == SubSeq(s, 1, Min(n, Len(s)))

HasId(list, id) == \E k \in 1..Len(list) : list[k].id = id

\* getRecommendedModels, over this.popularModels and this.data
getRecommendedModels(popular, d) ==
    LET recommended == IF popular = Absent THEN FALLBACK_RECOMMENDED ELSE Get(popular) IN
    IF d = Absent THEN recommended
    ELSE LET models == Get(d).models
             kept == SelectSeq(recommended, LAMBDA r : ExistingHas(models, r.id))
             filtered == [i \in 1..Len(kept) |-> WithPrice(models, kept[i])]
         IN
         IF Len(filtered) < RecommendedFloor
         THEN LET more == SelectSeq(FALLBACK_RECOMMENDED,
                              LAMBDA r : ExistingHas(models, r.id) /\ ~HasId(filtered, r.id))
                  fallbackFiltered == [i \in 1..Len(more) |-> WithPrice(models, more[i])]
              IN Take(filtered \o fallbackFiltered, RecommendedMax)
         ELSE Take(filtered, RecommendedMax)

\* isPopularModelsStale
isPopularModelsStale(popular, fetchedAt, t) ==
    IF popular = Absent \/ fetchedAt = 0 THEN TRUE
    ELSE t - fetchedAt > PopularModelsTtlMs

NoRecoCall == [called |-> FALSE]
RecoCall(fn, popular, d) ==
    [called |-> TRUE, fn |-> fn, popular |-> popular, loaded |-> d,
     ret |-> getRecommendedModels(popular, d)]

RecoIdle ==
    /\ popularModels = Absent
    /\ popularModelsFetchedAt = 0
    /\ recoCall = NoRecoCall

\* refreshPopularModels
RefreshPopularModels ==
    /\ UNCHANGED <<taskVars, cacheVars, resolverVars, httpVars, mcpVars>>
    /\ \E response \in PopularResponses :
         popularModels' = Some(scrapePopularModels(response))
    /\ popularModelsFetchedAt' = clock
    /\ UNCHANGED recoCall

\* getRecommendedModels
GetRecommendedModels ==
    /\ UNCHANGED <<taskVars, cacheVars, resolverVars, httpVars, mcpVars>>
    /\ recoCall' = RecoCall("getRecommendedModels", popularModels, data)
    /\ UNCHANGED <<popularModels, popularModelsFetchedAt>>

\* getRecommendedModelsAsync: refresh the popular list when it is stale,
\* then getRecommendedModels
GetRecommendedModelsAsync ==
    /\ UNCHANGED <<taskVars, cacheVars, resolverVars, httpVars, mcpVars>>
    /\ \E response \in PopularResponses :
         LET stale == isPopularModelsStale(popularModels, popularModelsFetchedAt, clock)
             popular == IF stale THEN Some(scrapePopularModels(response)) ELSE popularModels
         IN /\ popularModels' = popular
            /\ popularModelsFetchedAt' = IF stale THEN clock ELSE popularModelsFetchedAt
            /\ recoCall' = RecoCall("getRecommendedModelsAsync", popular, data)

\* time passes between two calls
TickRecommended ==
    /\ UNCHANGED <<taskVars, resolverVars, httpVars, recoVars, mcpVars>>
    /\ clock < MaxClock
    /\ clock' = clock + 1
    /\ UNCHANGED <<data, memoryLoadedAt, file, stats, calls>>

NextRecommended ==
    \/ RefreshPopularModels
    \/ GetRecommendedModels
    \/ GetRecommendedModelsAsync
    \/ TickRecommended

----------------------------------------------------------------------------
(* MCP response formatting: saveImagesFromOutputs and formatForMCP         *)

\* no formatter call was made yet; the model follows one call
McpIdle == mcp = [phase |-> "idle"]

\* largest number of outputs one task returns
MaxOutputs == 3

OutputModes == {"urls", "paths", "base64"}

\* what one output can be: an image URL or base64 image data
OutputItems == {"https://cdn.example/a.png", "https://cdn.example/b.png", "iVBORw0KGgo="}

\* isUrl
isUrl(s) == s \in {"https://cdn.example/a.png", "https://cdn.example/b.png"}

\* path.join(outputDir, `${taskId}_${i + 1}.png`), kept as its two parts;
\* n is the position counted from 1
DestPath(taskId, n) == <<taskId, n>>

Positions(s) == [i \in 1..Len(s) |-> i]

\* saveImagesFromOutputs: saved[n] tells whether the download or write of
\* output n succeeded.  The settled results are split into the paths of the
\* fulfilled ones and the failures, each in the order of the outputs.
saveImagesFromOutputs(outputs, taskId, saved) ==
    LET ok == SelectSeq(Positions(outputs), LAMBDA n : saved[n])
        ko == SelectSeq(Positions(outputs), LAMBDA n : ~saved[n])
    IN [savedPaths |-> [k \in 1..Len(ok) |-> DestPath(taskId, ok[k])],
        failed |-> [k \in 1..Len(ko) |->
                       [index |-> ko[k] - 1,
                        reason |-> IF isUrl(outputs[ko[k]]) THEN "Download failed"
                                   ELSE "write failed"]]]

\* an ImageOutput; index counts from 0
ImageOutput(index, url, path, imageData) ==
    [index |-> index, url |-> url, path |-> path, data |-> imageData]

\* savedPaths[i] || undefined
PathAt(savedPaths, n) == IF n <= Len(savedPaths) THEN Some(savedPaths[n]) ELSE Absent

\* result.taskId || "unknown"
IdOrUnknown(taskId) == IF taskId = "" THEN "unknown" ELSE taskId

\* formatForMCP: the MCPToolResponse (timing_ms, copied through, is left out)
formatForMCP(result, outputMode, saved) ==
    IF ~result.success
    THEN [id |-> IdOrUnknown(result.taskId), status |-> "failed", images |-> <<>>,
          error |-> result.error]
    ELSE LET outputs == result.outputs
             savedPaths == saveImagesFromOutputs(outputs, result.taskId, saved).savedPaths
             images ==
                 [n \in 1..Len(outputs) |->
                     IF outputMode = "urls"
                     THEN ImageOutput(n - 1, Some(outputs[n]), Absent, Absent)
                     ELSE IF outputMode = "paths"
                     THEN ImageOutput(n - 1, Some(outputs[n]), PathAt(savedPaths, n), Absent)
                     ELSE ImageOutput(n - 1, Absent, Absent, Some(outputs[n]))]
         IN [id |-> result.taskId, status |-> "completed", images |-> images, error |-> Absent]

\* formatForCLI: what it returns (its console output is left out)
formatForCLI(result, saved) ==
    IF ~result.success \/ Len(result.outputs) = 0
    THEN [savedPaths |-> <<>>, failed |-> <<>>]
    ELSE saveImagesFromOutputs(result.outputs, result.taskId, saved)

\* the OperationResults an orchestrator hands over
OutputLists == UNION {[1..n -> OutputItems] : n \in 0..MaxOutputs}
McpResults ==
    {OperationResult(TRUE, id, "completed", outputs, Absent) :
        id \in TaskIds, outputs \in OutputLists}
    \cup {OperationResult(FALSE, id, "failed", <<>>, Some(NetworkErrorMsg)) :
             id \in TaskIds \cup {""}}

\* formatForMCP runs to its end, or ensureOutputDir throws in paths mode
FormatForMCP ==
    /\ UNCHANGED <<taskVars, cacheVars, resolverVars, httpVars, recoVars>>
    /\ mcp.phase = "idle"
    /\ \E result \in McpResults, outputMode \in OutputModes, dirOk \in BOOLEAN :
         \E saved \in [1..Len(result.outputs) -> BOOLEAN] :
            LET saves == result.success /\ outputMode = "paths" IN
            /\ ~saves => (dirOk /\ \A n \in 1..Len(result.outputs) : saved[n])
            /\ mcp' = [phase |-> "done", fn |-> "formatForMCP", result |-> result,
                       outputMode |-> outputMode, saved |-> saved,
                       threw |-> saves /\ ~dirOk,
                       response |-> IF saves /\ ~dirOk THEN Absent
                                    ELSE Some(formatForMCP(result, outputMode, saved))]

\* formatForCLI runs to its end, or ensureOutputDir throws
FormatForCLI ==
    /\ UNCHANGED <<taskVars, cacheVars, resolverVars, httpVars, recoVars>>
    /\ mcp.phase = "idle"
    /\ \E result \in McpResults, dirOk \in BOOLEAN :
         \E saved \in [1..Len(result.outputs) -> BOOLEAN] :
            LET saves == result.success /\ Len(result.outputs) > 0 IN
            /\ ~saves => dirOk
            /\ mcp' = [phase |-> "done", fn |-> "formatForCLI", result |-> result,
                       outputMode |-> "paths", saved |-> saved,
                       threw |-> saves /\ ~dirOk,
                       response |-> IF saves /\ ~dirOk THEN Absent
                                    ELSE Some(formatForCLI(result, saved))]

NextMcp ==
    \/ FormatForMCP
    \/ FormatForCLI


----------------------------------------------------------------------------
(* Specifications                                                          *)

Init == TaskInit /\ CacheInit /\ ResolverIdle /\ HttpIdle /\ RecoIdle /\ McpIdle
Spec == Init /\ [][Next]_vars

\* the cache alone, beside one idle generateImage invocation
InitCache ==
    /\ TaskInit /\ impl = "model" /\ op = "generateImage"
    /\ CacheInit /\ ResolverIdle /\ HttpIdle /\ RecoIdle /\ McpIdle
\* every await settles: the submission and each getResult resolve or reject,
\* and each sleep ends
SpecLive == Init /\ [][Next]_vars /\ WF_vars(Next)

SpecCache == InitCache /\ [][NextCache]_vars

\* the resolver alone, beside an idle orchestrator and an empty cache
InitResolve ==
    /\ TaskInit /\ impl = "model" /\ op = "generateImage"
    /\ CacheInit /\ file = Absent
    /\ ResolverInit
    /\ HttpIdle /\ RecoIdle /\ McpIdle
SpecResolve == InitResolve /\ [][NextResolve]_vars

\* the HTTP client alone
InitHttp ==
    /\ TaskInit /\ impl = "model" /\ op = "generateImage"
    /\ CacheInit /\ file = Absent
    /\ ResolverIdle
    /\ HttpIdle /\ RecoIdle /\ McpIdle
SpecHttp == InitHttp /\ [][NextHttp]_vars

\* the recommended-models accessor, on an instance that either holds no
\* snapshot or loaded one with a first getModels call
InitRecommended ==
    /\ TaskInit /\ impl = "model" /\ op = "generateImage"
    /\ data \in {Absent} \cup {Some(Snapshot(1, c)) : c \in Catalogues}
    /\ memoryLoadedAt = IF data = Absent THEN 0 ELSE 1
    /\ file = data
    /\ stats = IF data = Absent THEN Stats0
               ELSE [hitCount |-> 0, missCount |-> 1, source |-> "api"]
    /\ clock = 1
    /\ calls = [n |-> 0, prev |-> Summary(NoEntry), last |-> NoEntry]
    /\ ResolverIdle /\ HttpIdle /\ RecoIdle /\ McpIdle
SpecRecommended == InitRecommended /\ [][NextRecommended]_vars

InitMcp ==
    /\ TaskInit /\ impl = "model" /\ op = "generateImage"
    /\ CacheInit /\ file = Absent
    /\ ResolverIdle /\ HttpIdle /\ RecoIdle /\ McpIdle
SpecMcp == InitMcp /\ [][NextMcp]_vars

----------------------------------------------------------------------------
(* Claims about the task lifecycle, checked under Spec                     *)

PollReturned == pollOutcome.kind = "returned"
PollThrew(what) == pollOutcome.kind = "threw" /\ pollOutcome.what = what

\* C1: pollUntilDone returns the last fetched record as soon as its status is
\* completed, succeeded or failed: once a fetched record has one of the three
\* statuses the loop has ended by returning it, the returned record's status
\* is one of the three, and no getResult is issued after such a record.
C1_TerminalStatusEndsLoop ==
    /\ hist.sawTerminal => pc = "done" /\ PollReturned
    /\ PollReturned => pollOutcome.rec.status \in TerminalSet
    /\ ~hist.fetchAfterTerminal

\* C2: when submission succeeded and the polls answered non-terminal
\* statuses and then the completed record with outputs (and nothing else),
\* the result generateImage resolves to has success = TRUE, the task's id
\* and the record's outputs, and it is not the outcome of the timeout.
C2_CompletedResolvesGenerate ==
    (impl = "model" /\ op = "generateImage" /\ hist.script = "completed" /\ pc = "done") =>
        /\ PollReturned
        /\ opResult = Some(OperationResult(TRUE, Get(created).id, "completed",
                                           <<ImgUrl>>, Absent))

\* C3: the wall-clock ceiling bounds the loop whatever the number of polls
\* that answered a non-terminal status: every getResult is issued with
\* elapsed time at most the ceiling (above it the loop head throws), and the
\* timeout error is thrown only above the ceiling.
C3_TimeoutBoundsPolling ==
    /\ pc = "fetching" => now - start <= TimeoutMs
    /\ PollThrew("timeout") =>
          /\ now - start > TimeoutMs
          /\ thrown = Some(TimeoutMsg(impl, Get(created).id))
    /\ pc \in {"loop", "sleeping", "backoff"} => pollOutcome = Pending

\* C3 witness: the timeout is raised after two or more polls that all
\* succeeded with a non-terminal status
C3_Witness ==
    PollThrew("timeout") /\ hist.okPolls >= 2 /\ hist.failures = 0

\* C4: pollUntilDone re-raises a fetch error only when more consecutive
\* fetch failures occurred than the retry ceiling; with at most that many it
\* goes on polling.
C4_FetchErrorOnlyPastCeiling ==
    PollThrew("fetch") => hist.run > DefaultMaxNetRetries

\* C5: (polling.ts 46-72) a successful poll with a non-terminal status resets
\* the retry counter before the next fetch: at every loop head, fetch and
\* backoff the counter equals the length of the current run of consecutive
\* failures, and a fetch error is re-raised only when that run exceeds the
\* ceiling, whatever the total number of failures.
C5_RetryCounterCountsRuns ==
    impl = "retry" =>
        /\ pc \in {"loop", "fetching", "backoff"} => netErrors = hist.run
        /\ PollThrew("fetch") => hist.run = DefaultMaxNetRetries + 1

\* C5 witness: more failures in total than the ceiling, separated by a
\* successful poll, and the loop is still running
C5_Witness ==
    /\ impl = "retry"
    /\ pc = "backoff"
    /\ hist.failures > DefaultMaxNetRetries
    /\ hist.okPolls >= 1
    /\ netErrors <= DefaultMaxNetRetries

\* C6: an orchestrator never throws for a task-execution failure: whenever
\* submission or polling raised an exception (HTTP error, non-JSON body,
\* network error, poll timeout) the call has resolved to a result with
\* success = FALSE, status failed, no outputs and the exception's message.
C6_ExceptionBecomesFailureResult ==
    /\ pc = "done" => IsSome(opResult)
    /\ IsSome(thrown) =>
          /\ pc = "done"
          /\ IsSome(opResult)
          /\ Get(opResult).success = FALSE
          /\ Get(opResult).status = "failed"
          /\ Get(opResult).outputs = <<>>
          /\ Get(opResult).error = thrown

\* C6 witness: editSequential resolved after a poll got a body that is not JSON
C6_Witness ==
    /\ op = "editSequential"
    /\ pc = "done"
    /\ IsSome(created)
    /\ thrown = Some(<<"Non JSON response with status", 502, "">>)

\* C7: when polling ends with a failed record the orchestrator resolves to
\* success = FALSE, status failed, the record's id and the record's error
\* message; another (default) message appears only when the record carries
\* no message (absent or empty).
C7_FailedRecordBecomesResult ==
    (PollReturned /\ pollOutcome.rec.status = "failed") =>
        LET rec == pollOutcome.rec
            res == Get(opResult) IN
        /\ pc = "done"
        /\ IsSome(opResult)
        /\ thrown = Absent
        /\ res.success = FALSE
        /\ res.status = "failed"
        /\ res.taskId = rec.id
        /\ IsSome(res.error)
        /\ rec.error = Some(NsfwMsg) => res.error = Some(<<NsfwMsg, 0, "">>)
        /\ res.error # Some(<<NsfwMsg, 0, "">>) => rec.error \in {Absent, Some("")}

\* C7 witness: editImage resolved from a failed record carrying a message
C7_Witness ==
    /\ op = "editImage"
    /\ PollReturned
    /\ pollOutcome.rec.status = "failed"
    /\ pollOutcome.rec.error = Some(NsfwMsg)
    /\ IsSome(opResult)

----------------------------------------------------------------------------
(* Claims about the model metadata cache, checked under SpecCache          *)

LastCall == calls.last
PrevCall == calls.prev
LastIsGetModels(force) == LastCall.op = "getModels" /\ LastCall.force = force
HitRecorded ==
    /\ stats.hitCount = LastCall.pre.stats.hitCount + 1
    /\ stats.missCount = LastCall.pre.stats.missCount
MissRecorded ==
    /\ stats.missCount = LastCall.pre.stats.missCount + 1
    /\ stats.hitCount = LastCall.pre.stats.hitCount

\* two consecutive getModels calls without forceRefresh, the first on an empty
\* cache (no snapshot, no usable file) which it filled, the second made while
\* that snapshot is within the memory TTL
TwoCallsWithinMemoryTtl ==
    /\ PrevCall.op = "getModels" /\ ~PrevCall.force /\ PrevCall.onEmpty /\ ~PrevCall.threw
    /\ LastIsGetModels(FALSE)
    /\ LastCall.at - PrevCall.at <= MemoryTtlMs

\* C8: two getModels calls without forceRefresh within the memory TTL window
\* on an initially empty cache issue exactly one live fetch in total; the
\* second returns the models of the snapshot held in memory and is recorded
\* as a hit with source memory.
C8_OneFetchWithinMemoryTtl ==
    TwoCallsWithinMemoryTtl =>
        /\ PrevCall.fetched
        /\ ~LastCall.fetched
        /\ ~LastCall.threw
        /\ IsSome(LastCall.pre.data)
        /\ Get(LastCall.pre.data).fetchedAt = PrevCall.at
        /\ LastCall.ret = Some(Get(LastCall.pre.data).models)
        /\ HitRecorded
        /\ stats.source = "memory"

\* C8 witness: the second call came a full memory TTL after the first
C8_Witness ==
    TwoCallsWithinMemoryTtl /\ LastCall.at = PrevCall.at + MemoryTtlMs

\* a usable cache file younger than the file TTL when the last call ran
FreshFileBefore(call) ==
    /\ IsSome(call.pre.file)
    /\ Get(call.pre.file).version = CACHE_VERSION
    /\ call.at - Get(call.pre.file).fetchedAt <= FileTtlMs

\* an in-memory snapshot older than the memory TTL when the last call ran
StaleMemoryBefore(call) ==
    /\ IsSome(call.pre.data)
    /\ call.at - call.pre.memoryLoadedAt > MemoryTtlMs

C10_ForceFetchesAndCountsMiss ==
    LastIsGetModels(TRUE) =>
        /\ LastCall.fetched
        /\ MissRecorded

\* the snapshot the instance holds when the last call reaches refresh: the
\* in-memory one, else (without forceRefresh) the cache file's, which
\* getModels takes into memory before it fetches
HeldAtRefresh(call) ==
    IF IsSome(call.pre.data) THEN call.pre.data
    ELSE IF call.force THEN Absent
    ELSE loadFromFile(call.pre.file)

\* C11: when the live refresh of a getModels call throws while a snapshot
\* (possibly stale) is held, the call returns that snapshot's models without
\* throwing and the held snapshot stays the in-memory snapshot; the call
\* throws only when the refresh failed and no snapshot was held.
C11_RefreshFailureKeepsSnapshot ==
    LastCall.op = "getModels" =>
        /\ (LastCall.liveFailed /\ IsSome(HeldAtRefresh(LastCall))) =>
              /\ ~LastCall.threw
              /\ LastCall.ret = Some(Get(HeldAtRefresh(LastCall)).models)
              /\ data = HeldAtRefresh(LastCall)
        /\ LastCall.threw <=> (LastCall.liveFailed /\ HeldAtRefresh(LastCall) = Absent)
        /\ LastCall.threw => data = Absent

\* C11 witness: an in-memory snapshot older than the memory TTL is served
\* after the refresh failed
C11_Witness ==
    /\ LastIsGetModels(FALSE)
    /\ StaleMemoryBefore(LastCall)
    /\ LastCall.liveFailed
    /\ ~LastCall.threw
    /\ LastCall.ret = Some(Get(LastCall.pre.data).models)

----------------------------------------------------------------------------
(* Claims about the model resolver, checked under SpecResolve              *)

ResolveCalled == resolverCall.op = "resolveModel"
ResolveOk == ResolveCalled /\ resolverCall.result.ok
ResolveFailed == ResolveCalled /\ ~resolverCall.result.ok
ResolvedModel == resolverCall.result.model
ResolveError == resolverCall.result.error

\* the ids the three levels offer for the last call
ExplicitId == resolverCall.cliModelFlag
CommandLevelId == CmdDefaultId(config, resolverCall.commandName)
GlobalLevelId == GlobalDefaultId(config)

\* the level that is the first one set, and the id it names
DecidingLevel ==
    IF Truthy(ExplicitId) THEN "flag"
    ELSE IF Truthy(CommandLevelId) THEN "command"
    ELSE IF Truthy(GlobalLevelId) THEN "global"
    ELSE "builtin"
DecidingId ==
    IF DecidingLevel = "flag" THEN Get(ExplicitId)
    ELSE IF DecidingLevel = "command" THEN Get(CommandLevelId)
    ELSE IF DecidingLevel = "global" THEN Get(GlobalLevelId)
    ELSE BUILTIN_MODEL_ID

InConfig(id) == IsSome(ConfigModel(config, id))
InRegistry(id) == id \in DOMAIN MODEL_REGISTRY

\* the entry an id selects: the config alias, else the registry entry
SelectedEntry(id) ==
    IF InConfig(id) THEN Get(ConfigModel(config, id))
    ELSE FromRegistry(MODEL_REGISTRY[id])

\* the environment variable an entry names (the native one by default for
\* the native provider), if any
NamedKeyEnv(entry) ==
    IF Truthy(entry.apiKeyEnv) THEN entry.apiKeyEnv
    ELSE IF entry.provider = NativeProvider THEN Some(NativeKeyEnv)
    ELSE Absent

MissingField(entry) ==
    entry.provider # NativeProvider /\ (~Truthy(entry.apiKeyEnv) \/ ~Truthy(entry.apiBaseUrl))
MissingSecret(entry) ==
    IsSome(NamedKeyEnv(entry)) /\ ~Truthy(env[Get(NamedKeyEnv(entry))])

\* the deciding level cannot produce a descriptor
DecidingLevelFails ==
    IF DecidingLevel = "builtin" THEN ~Truthy(env[NativeKeyEnv])
    ELSE \/ ~InConfig(DecidingId) /\ ~InRegistry(DecidingId)
         \/ /\ InConfig(DecidingId) \/ InRegistry(DecidingId)
            /\ MissingField(SelectedEntry(DecidingId)) \/ MissingSecret(SelectedEntry(DecidingId))

\* C12: the first level that is set among explicit id, command default of the
\* given command, global default and built-in fallback decides: a returned
\* descriptor carries the deciding level's id (the command default's when
\* both defaults are set and no explicit id is given) and comes from the
\* built-in fallback only when no level is set; when the deciding level fails
\* the call fails, whatever the lower levels hold.
C12_FirstSetLevelDecides ==
    ResolveCalled =>
        /\ ResolveOk =>
              /\ ResolvedModel.id = DecidingId
              /\ ResolvedModel.isFromConfig <=> DecidingLevel # "builtin"
              /\ DecidingLevel # "builtin" =>
                    ResolvedModel.provider = SelectedEntry(DecidingId).provider
        /\ DecidingLevelFails => ResolveFailed
        /\ ~DecidingLevelFails => ResolveOk

\* C12 witness: no explicit id, command default and global default name
\* different ids, and the command default's model was returned
C12_Witness ==
    /\ ResolveOk
    /\ ~Truthy(ExplicitId)
    /\ Truthy(CommandLevelId)
    /\ Truthy(GlobalLevelId)
    /\ CommandLevelId # GlobalLevelId
    /\ ResolvedModel.id = Get(CommandLevelId)

\* the explicit id is known and the variable its entry names has a value
ExplicitKnownWithSecret ==
    /\ ResolveCalled
    /\ Truthy(ExplicitId)
    /\ InConfig(Get(ExplicitId)) \/ InRegistry(Get(ExplicitId))
    /\ IsSome(NamedKeyEnv(SelectedEntry(Get(ExplicitId))))
    /\ ~MissingSecret(SelectedEntry(Get(ExplicitId)))

\* the descriptor of the explicit id, taken from the config alias when there
\* is one
ExplicitDescriptorReturned ==
    /\ ResolveOk
    /\ ResolvedModel.id = Get(ExplicitId)
    /\ ResolvedModel.apiKey # ""
    /\ ResolvedModel.provider = SelectedEntry(Get(ExplicitId)).provider
    /\ ResolvedModel.modelName = SelectedEntry(Get(ExplicitId)).modelName

\* C13 (as stated): for an explicit id present in the config aliases or the
\* registry, with the environment variable it references set, resolveModel
\* returns a descriptor with that id and a non-empty apiKey, taken from the
\* config alias when the id is in both.
C13_KnownExplicitIdResolves ==
    ExplicitKnownWithSecret => ExplicitDescriptorReturned

\* C13 (amended): the same, for an entry that is complete: its provider is
\* the native one or it declares a base URL.  (A non-native alias without a
\* base URL fails with a configuration error although its secret is set.)
C13_CompleteExplicitIdResolves ==
    /\ (ExplicitKnownWithSecret /\ ~MissingField(SelectedEntry(Get(ExplicitId)))) =>
          ExplicitDescriptorReturned
    /\ (ExplicitKnownWithSecret /\ MissingField(SelectedEntry(Get(ExplicitId)))) =>
          ResolveFailed /\ ResolveError.exitCode = 3

\* C13 witness: a registry id that the config declares as a non-native alias
\* was resolved from the alias
C13_Witness ==
    /\ ExplicitKnownWithSecret
    /\ InConfig(Get(ExplicitId)) /\ InRegistry(Get(ExplicitId))
    /\ ResolveOk
    /\ ResolvedModel.provider = "custom"
    /\ ResolvedModel.modelName = Some(AltModelName)

BuiltinDescriptor ==
    [id |-> BUILTIN_MODEL_ID,
     provider |-> NativeProvider,
     apiBaseUrl |-> NativeBaseUrl,
     apiKey |-> Get(env[NativeKeyEnv]),
     apiKeyEnv |-> NativeKeyEnv,
     modelName |-> Some(BuiltinModelName),
     isFromConfig |-> FALSE]

DecidingKeyEnv ==
    IF DecidingLevel = "builtin" THEN Some(NativeKeyEnv)
    ELSE IF InConfig(DecidingId) \/ InRegistry(DecidingId)
    THEN NamedKeyEnv(SelectedEntry(DecidingId))
    ELSE Absent

\* C16: whenever the environment variable named by the selected model (the
\* native one for the built-in fallback) has no value, resolveModel fails
\* with exit code 2 and returns no descriptor; unknown ids and missing
\* fields fail with exit code 3, and exit code 2 is used for nothing else.
C16_MissingSecretIsExitTwo ==
    ResolveCalled =>
        /\ (IsSome(DecidingKeyEnv) /\ ~Truthy(env[Get(DecidingKeyEnv)])) =>
              ResolveFailed /\ ResolveError.exitCode = 2
        /\ (ResolveFailed /\ ResolveError.exitCode = 2) =>
              IsSome(DecidingKeyEnv) /\ ~Truthy(env[Get(DecidingKeyEnv)])
        /\ ResolveFailed => ResolveError.exitCode \in {2, 3}

\* C16 witness: a config alias names a variable that is set to the empty
\* string
C16_Witness ==
    /\ ResolveFailed
    /\ DecidingLevel = "command"
    /\ InConfig(DecidingId)
    /\ DecidingKeyEnv = Some("ALT_KEY")
    /\ env["ALT_KEY"] = Some("")
    /\ ResolveError.exitCode = 2

\* the selected model is not native and lacks its base URL or the name of
\* its secret variable
SelectedLacksField ==
    /\ ResolveCalled
    /\ DecidingLevel # "builtin"
    /\ InConfig(DecidingId) \/ InRegistry(DecidingId)
    /\ MissingField(SelectedEntry(DecidingId))

C18_DescriptorFullyPopulated ==
    ResolveOk =>
        /\ ResolvedModel.apiBaseUrl # ""
        /\ ResolvedModel.apiKey # ""
        /\ ResolvedModel.apiKeyEnv # ""
        /\ ResolvedModel.apiKeyEnv \in EnvNames
        /\ env[ResolvedModel.apiKeyEnv] = Some(ResolvedModel.apiKey)

\* C18 witness: a native alias with an empty base URL was resolved with the
\* native base URL
C18_Witness ==
    /\ ResolveOk
    /\ InConfig(DecidingId)
    /\ SelectedEntry(DecidingId).apiBaseUrl = Some("")
    /\ ResolvedModel.apiBaseUrl = NativeBaseUrl

ListCalled == resolverCall.op = "listModels"

\* C19: listModels returns, for any config and environment, one summary per
\* configured alias (the built-in summary alone without a config); a native
\* entry without base URL or variable name is listed with the native ones, a
\* non-native entry without them with the empty string.
C19_ListModelsNeverFails ==
    ListCalled =>
        LET listed == resolverCall.models IN
        IF config = Absent
        THEN listed = [id \in {BUILTIN_MODEL_ID} |-> BuiltinSummary]
        ELSE /\ DOMAIN listed = {id \in AliasIds : InConfig(id)}
             /\ \A id \in DOMAIN listed :
                  LET entry == Get(ConfigModel(config, id)) IN
                  /\ listed[id].id = id
                  /\ listed[id].provider = entry.provider
                  /\ listed[id].apiBaseUrl =
                        (IF Truthy(entry.apiBaseUrl) THEN Get(entry.apiBaseUrl)
                         ELSE IF entry.provider = NativeProvider THEN NativeBaseUrl
                         ELSE "")
                  /\ listed[id].apiKeyEnv =
                        (IF Truthy(entry.apiKeyEnv) THEN Get(entry.apiKeyEnv)
                         ELSE IF entry.provider = NativeProvider THEN NativeKeyEnv
                         ELSE "")

\* C19 witness: a non-native alias without base URL and variable name is
\* listed with empty strings while no secret is set
C19_Witness ==
    /\ ListCalled
    /\ env = NoEnv
    /\ InConfig("alt")
    /\ Get(ConfigModel(config, "alt")).provider = "custom"
    /\ ConfigModel(config, "alt") # Absent
    /\ resolverCall.models["alt"].apiBaseUrl = ""
    /\ resolverCall.models["alt"].apiKeyEnv = ""

----------------------------------------------------------------------------
(* Claims about the HTTP client, checked under SpecHttp                    *)

HttpDone == http.phase = "done"
NonJsonError(res) == [threw |-> TRUE, msg |-> <<"Non JSON response with status", res.status, "">>]

\* the message of the HTTP error: the parsed body's error, else its message,
\* else the status text (an empty string counts as no value)
HttpErrorMessage(res) ==
    LET body == IF res.hasText THEN res.body ELSE EmptyObject
        error == IF "error" \in DOMAIN body THEN body.error ELSE Absent
        message == IF "message" \in DOMAIN body THEN body.message ELSE Absent
    IN  IF error \notin {Absent, Some("")} THEN Get(error)
        ELSE IF message \notin {Absent, Some("")} THEN Get(message)
        ELSE res.statusText

\* C20 (as stated): a body that is not JSON raises the Non JSON response
\* error with the status, whatever the status; else a non-2xx status raises
\* HTTP <status>: <message>; only a 2xx JSON response yields a record.
C20_ClassifiedByBodyThenStatus ==
    HttpDone =>
        LET res == http.res
            isJson == res.hasText /\ res.json IN
        /\ ~isJson => http.outcome = NonJsonError(res)
        /\ (isJson /\ ~res.ok) =>
              http.outcome = [threw |-> TRUE, msg |-> <<"HTTP", res.status, HttpErrorMessage(res)>>]
        /\ ~http.outcome.threw => isJson /\ res.ok

\* C20 (amended): a non-empty body that is not JSON raises the Non JSON
\* response error with the status, whatever the status; an empty body is
\* read as the empty JSON object; then a non-2xx status raises
\* HTTP <status>: <message>, the message being the body's error field, else
\* its message field, else the status text; only a 2xx response whose body
\* is JSON or empty yields a value, the content of the data field when the
\* body has one, else the body itself.
C20_EmptyBodyReadAsObject ==
    HttpDone =>
        LET res == http.res
            notJson == res.hasText /\ ~res.json IN
        /\ notJson => http.outcome = NonJsonError(res)
        /\ (~notJson /\ ~res.ok) =>
              http.outcome = [threw |-> TRUE, msg |-> <<"HTTP", res.status, HttpErrorMessage(res)>>]
        /\ (~notJson /\ res.ok) =>
              /\ ~http.outcome.threw
              /\ ~res.hasText => http.outcome.rec = EmptyObject
              /\ (res.hasText /\ "data" \in DOMAIN res.body) => http.outcome.rec = res.body.data
              /\ (res.hasText /\ "data" \notin DOMAIN res.body) => http.outcome.rec = res.body

\* C20 witness: getResult got a non-2xx response whose body is not JSON
C20_Witness ==
    /\ HttpDone
    /\ http.fn = "getResult"
    /\ http.res.hasText /\ ~http.res.json /\ ~http.res.ok
    /\ http.outcome = NonJsonError(http.res)

\* the last response is the 2xx JSON response carrying record rec, wrapped in
\* a data envelope or bare
CarriesRecord(rec, wrapped) == HttpDone /\ http.res = OkResponse(rec, wrapped)

\* C21: for a 2xx JSON response submitTask and getResult return the task
\* record the body carries, whether the body is the record itself or
\* {data: record}: the call returns that record, and the other shape of the
\* same record would have given the same outcome.
C21_EnvelopeIsTransparent ==
    \A id \in TaskIds : \A rec \in RecordsFor(id) : \A wrapped \in BOOLEAN :
        CarriesRecord(rec, wrapped) =>
            /\ http.outcome = [threw |-> FALSE, rec |-> rec]
            /\ httpJson(OkResponse(rec, ~wrapped)) = http.outcome

\* C21 witness: submitTask got a completed record with outputs inside a
\* data envelope
C21_Witness ==
    /\ HttpDone
    /\ http.fn = "submitTask"
    /\ http.res = OkResponse(TaskData("t1", "completed", Some(<<ImgUrl>>), Absent), TRUE)
    /\ ~http.outcome.threw
    /\ http.outcome.rec.id = "t1"
    /\ http.outcome.rec.outputs = Some(<<ImgUrl>>)

----------------------------------------------------------------------------
(* Recommended models: claims                                              *)

\* the list the last accessor call started from: the popular list, or the
\* fallback list when none was scraped
RecommendedOf(call) ==
    IF call.popular = Absent THEN FALLBACK_RECOMMENDED ELSE Get(call.popular)

\* the catalogue the instance held at the last accessor call
CatalogueOf(call) == Get(call.loaded).models

RecoCalledLoaded == recoCall.called /\ recoCall.loaded # Absent

\* the entries of the popular list that the catalogue holds
InBoth(call) ==
    SelectSeq(RecommendedOf(call), LAMBDA r : ExistingHas(CatalogueOf(call), r.id))

IsFallbackId(id) == \E j \in 1..Len(FallbackIds) : FallbackIds[j] = id

\* C22: with a snapshot loaded, every returned entry that is in both the
\* popular list and the live catalogue carries the catalogue's base price
\* of its id, and an entry of the popular list that the catalogue lacks is
\* not returned unless it is padding from the fallback list below the floor
\* of 3 entries.
C22_ReturnedEntriesArePriced ==
    RecoCalledLoaded =>
        LET ret == recoCall.ret
            models == CatalogueOf(recoCall)
            popular == RecommendedOf(recoCall)
        IN
        /\ \A k \in 1..Len(ret) :
              (HasId(popular, ret[k].id) /\ ExistingHas(models, ret[k].id)) =>
                 ret[k].price = Some(ExistingGet(models, ret[k].id).base_price)
        /\ \A i \in 1..Len(popular) :
              (~ExistingHas(models, popular[i].id) /\ HasId(ret, popular[i].id)) =>
                 /\ Len(InBoth(recoCall)) < RecommendedFloor
                 /\ IsFallbackId(popular[i].id)

\* C22 witness: a scraped popular list of which the catalogue holds some
\* entries and lacks others; the call returned priced entries
C22_Witness ==
    /\ RecoCalledLoaded
    /\ recoCall.popular # Absent
    /\ Len(InBoth(recoCall)) >= RecommendedFloor
    /\ Len(InBoth(recoCall)) < Len(RecommendedOf(recoCall))
    /\ Len(recoCall.ret) >= RecommendedFloor
    /\ \A k \in 1..Len(recoCall.ret) : recoCall.ret[k].price # Absent

NoIdTwice(list) ==
    \A i, j \in 1..Len(list) : list[i].id = list[j].id => i = j

\* C23 (as stated): when filtering leaves fewer than 3 entries the result is
\* padded back up to 3, and in every case the list has no id twice and at
\* most 10 entries.
C23_PaddedToFloorAndCapped ==
    recoCall.called =>
        /\ (recoCall.loaded # Absent /\ Len(InBoth(recoCall)) < RecommendedFloor)
              => Len(recoCall.ret) >= RecommendedFloor
        /\ NoIdTwice(recoCall.ret)
        /\ Len(recoCall.ret) <= RecommendedMax

\* the entries of the fallback list that the catalogue holds and the
\* filtered popular list does not
PaddingOf(call) ==
    SelectSeq(FALLBACK_RECOMMENDED,
              LAMBDA r : ExistingHas(CatalogueOf(call), r.id) /\ ~HasId(InBoth(call), r.id))

Ids(list) == [i \in 1..Len(list) |-> list[i].id]

\* C23 (amended): with a snapshot loaded, when filtering leaves fewer than 3
\* entries the result is the filtered list followed by every fallback entry
\* that the catalogue holds and the filtered list lacks (which may leave it
\* below 3, even empty, or take it past 3), otherwise it is the filtered
\* list; it has no id twice and at most 10 entries.  With no snapshot loaded
\* the popular list (or the fallback list) is returned as it is: no id
\* twice, at most 15 entries.
C23_PaddedWithWhatTheCatalogueHolds ==
    recoCall.called =>
        /\ NoIdTwice(recoCall.ret)
        /\ recoCall.loaded # Absent =>
              /\ Len(recoCall.ret) <= RecommendedMax
              /\ Len(InBoth(recoCall)) < RecommendedFloor =>
                    Ids(recoCall.ret) = Ids(InBoth(recoCall) \o PaddingOf(recoCall))
              /\ Len(InBoth(recoCall)) >= RecommendedFloor =>
                    Ids(recoCall.ret) = Ids(Take(InBoth(recoCall), RecommendedMax))
        /\ recoCall.loaded = Absent =>
              /\ recoCall.ret = RecommendedOf(recoCall)
              /\ Len(recoCall.ret) <= MaxPopular

\* C23 witness: filtering left fewer than 3 entries, padding added fallback
\* entries and a fallback entry already present was not added again
C23_Witness ==
    /\ RecoCalledLoaded
    /\ recoCall.popular # Absent
    /\ Len(InBoth(recoCall)) \in 1..(RecommendedFloor - 1)
    /\ Len(recoCall.ret) > Len(InBoth(recoCall))
    /\ \E k \in 1..Len(InBoth(recoCall)) : IsFallbackId(InBoth(recoCall)[k].id)

\* a call that filtered more than 10 entries and returned the first 10
C23_CapReached ==
    /\ RecoCalledLoaded
    /\ Len(InBoth(recoCall)) > RecommendedMax
    /\ Len(recoCall.ret) = RecommendedMax

----------------------------------------------------------------------------
(* Invalidation, checked under SpecCache                                   *)

QueriesAnswerEmpty == queryModels(data) = {} /\ getModelCount(data) = 0

AfterInvalidate == LastCall.op = "invalidate"
GetModelsAfterInvalidate == PrevCall.op = "invalidate" /\ LastIsGetModels(FALSE)

\* C24 (as stated): invalidate() never throws and leaves no in-memory
\* snapshot and no file on disk: afterwards the query operations answer
\* empty, and the next getModels call without forceRefresh performs a live
\* fetch instead of returning data fetched before the invalidation.
C24_InvalidateForcesLiveFetch ==
    /\ AfterInvalidate =>
          /\ ~LastCall.threw
          /\ data = Absent
          /\ file = Absent
          /\ QueriesAnswerEmpty
    /\ GetModelsAfterInvalidate => LastCall.fetched

\* the file invalidate left behind is one getModels would adopt as fresh
FreshFileLeft(call) ==
    /\ call.pre.data = Absent
    /\ IsSome(loadFromFile(call.pre.file))
    /\ ~isFileStale(Get(loadFromFile(call.pre.file)), call.at)

\* C24 (amended): invalidate() never throws and always clears the in-memory
\* snapshot, so the query operations answer empty; it removes the file
\* unless the unlink fails, and then the file stays as it was.  The next
\* getModels call without forceRefresh performs a live fetch unless a file
\* within its TTL was left behind: then it answers from that file, with
\* data fetched before the invalidation, and fetches nothing.
C24_InvalidateClearsMemory ==
    /\ AfterInvalidate =>
          /\ ~LastCall.threw
          /\ data = Absent
          /\ memoryLoadedAt = 0
          /\ file \in {Absent, LastCall.pre.file}
          /\ QueriesAnswerEmpty
    /\ GetModelsAfterInvalidate =>
          /\ LastCall.pre.data = Absent
          /\ LastCall.fetched <=> ~FreshFileLeft(LastCall)
          /\ FreshFileLeft(LastCall) =>
                /\ LastCall.ret = Some(Get(LastCall.pre.file).models)
                /\ Get(LastCall.pre.file).fetchedAt <= PrevCall.at

\* C24 witness: the unlink failed, and the getModels call after the
\* invalidation answered from the file that was left, without a fetch
C24_Witness ==
    /\ GetModelsAfterInvalidate
    /\ FreshFileLeft(LastCall)
    /\ ~LastCall.fetched
    /\ stats.source = "file"

\* the other case: the file was removed and the next call fetched
C24_FileRemovedThenFetched ==
    /\ GetModelsAfterInvalidate
    /\ LastCall.pre.file = Absent
    /\ LastCall.fetched

----------------------------------------------------------------------------
(* Ceilings of pollUntilDone, checked under Spec                           *)

Elapsed == now - start

\* C25: (polling.ts 51-71) the wall-clock ceiling and the retry ceiling are
\* independent.  The start of the poll is never moved, so the time a failed
\* fetch took and the time of a backoff wait count against the wall-clock
\* ceiling; at a loop head past the ceiling the timeout error ends the call
\* whatever the retry counter says, and the counter is left as it was (the
\* timeout is not counted as a network error and not retried); no result
\* fetch is issued once the elapsed time exceeds the ceiling.
C25_CeilingsAreIndependent ==
    [][ impl = "retry" =>
          /\ pc # "idle" => start' = start
          /\ (pc = "fetching" /\ pc' \in {"backoff", "done"}) => now' >= now
          /\ pc = "backoff" =>
                /\ now' = now + Backoff(netErrors)
                /\ Backoff(netErrors) >= IntervalMs
          /\ (pc = "loop" /\ TimedOut(Elapsed)) =>
                /\ pc' = "done"
                /\ pollOutcome' = Threw("timeout", TimeoutMsg(impl, Get(created).id))
                /\ netErrors' = netErrors
          /\ pc' = "fetching" => ~TimedOut(now' - start')
      ]_vars

\* C25 witness: the timeout error ended a call whose last fetches failed
\* and whose retry counter had not passed the retry ceiling
C25_Witness ==
    /\ impl = "retry"
    /\ PollThrew("timeout")
    /\ netErrors \in 1..DefaultMaxNetRetries
    /\ hist.run = netErrors

----------------------------------------------------------------------------
(* Orchestrators: the task id, the submission, termination                 *)

Finished == pc = "done" /\ IsSome(opResult)

\* C26: whenever submitTask succeeded and returned task id t, the
\* OperationResult's taskId equals t in every outcome, also when polling
\* throws afterwards (timeout, HTTP error, network error).
C26_ResultKeepsTaskId ==
    (Finished /\ IsSome(created)) => Get(opResult).taskId = Get(created).id

\* the case C26 fails in: the task was created, polling threw, and the
\* result carries the empty id
C26_IdLostAfterPollThrew ==
    /\ Finished /\ IsSome(created)
    /\ pollOutcome.kind = "threw"
    /\ Get(opResult).taskId = ""

NoFetchYet ==
    /\ hist.okPolls = 0 /\ hist.failures = 0 /\ hist.run = 0
    /\ ~hist.sawTerminal /\ ~hist.fetchAfterTerminal
    /\ pollOutcome = Pending

\* C27: each orchestrator invocation issues exactly one submission, before
\* any result fetch; poll failures, retries and timeouts never lead to a
\* second one; every result fetch uses the id that submission returned (the
\* id is fixed once polling starts, and a returned record carries it); when
\* the submission fails no result fetch is issued at all.
C27_OneSubmissionThenPolls ==
    /\ [](/\ hist.submits = (IF pc = "idle" THEN 0 ELSE 1)
          /\ pc = "idle" => NoFetchYet
          /\ pc \in {"loop", "fetching", "sleeping", "backoff"} => IsSome(created)
          /\ (pc = "done" /\ created = Absent) => NoFetchYet
          /\ PollReturned => pollOutcome.rec.id = Get(created).id)
    /\ [][ /\ pc # "idle" => (created' = created /\ hist'.submits = hist.submits)
           /\ pc' = "fetching" => (pc = "loop" /\ IsSome(created)) ]_vars

\* C27 witness: a call that retried failed polls, then polled on and ended,
\* with one submission
C27_Witness ==
    /\ pc = "done" /\ PollReturned
    /\ hist.failures >= 2 /\ hist.okPolls >= 1
    /\ hist.submits = 1

\* C28: pollUntilDone always terminates when every fetch returns or fails and
\* every wait ends: from its first loop head on, the call ends by returning
\* a record, raising the timeout error or re-raising a fetch error.
C28_PollTerminates ==
    /\ [](pc = "done" /\ IsSome(created) =>
             \/ PollReturned
             \/ PollThrew("timeout")
             \/ PollThrew("fetch"))
    /\ (pc = "loop") ~> (pc = "done")

\* C28 witness: a call that ended after non-terminal polls and failed
\* fetches, past the wall-clock ceiling
C28_Witness ==
    /\ pc = "done" /\ PollThrew("timeout")
    /\ hist.okPolls >= 2 /\ hist.failures >= 2

----------------------------------------------------------------------------
(* Age of the snapshot a cache hit serves, checked under SpecCache         *)

\* the last call was a getModels without forceRefresh that answered without
\* calling the live source
AnsweredAsHit == LastIsGetModels(FALSE) /\ ~LastCall.fetched /\ ~LastCall.threw

\* age, at the last call, of the snapshot held after it
ServedAge == LastCall.at - Get(data).fetchedAt

\* C29: getModels never answers as a cache hit, without attempting a live
\* fetch in that call, with a snapshot whose age since fetchedAt exceeds the
\* file TTL.
C29_NoHitPastFileTtl ==
    AnsweredAsHit => (IsSome(data) /\ ServedAge <= FileTtlMs)

\* the case C29 fails in: a hit from memory with a snapshot older than the
\* file TTL, right after a call whose live fetch failed
C29_StalePlaceholderServed ==
    /\ AnsweredAsHit
    /\ stats.source = "memory"
    /\ ServedAge > FileTtlMs
    /\ PrevCall.op = "getModels" /\ PrevCall.fetched /\ ~PrevCall.threw

\* the other case: a hit from memory with a snapshot adopted from a file
\* that was still within its TTL
C29_AdoptedFileOutlivesTtl ==
    /\ AnsweredAsHit
    /\ stats.source = "memory"
    /\ ServedAge > FileTtlMs
    /\ PrevCall.op = "getModels" /\ ~PrevCall.fetched

----------------------------------------------------------------------------
(* MCP response in paths mode, checked under SpecMcp                       *)

PathsResponse ==
    /\ mcp.phase = "done" /\ mcp.fn = "formatForMCP"
    /\ mcp.result.success /\ mcp.outputMode = "paths"
    /\ ~mcp.threw

\* C30: in formatForMCP with output mode paths, image entry i has url equal
\* to outputs[i] and path equal to the file saved from outputs[i], or no
\* path when saving outputs[i] failed: a failed save never shifts the paths
\* of the outputs after it.
C30_PathsAlignWithOutputs ==
    PathsResponse =>
        LET images == Get(mcp.response).images
            outputs == mcp.result.outputs
        IN /\ Len(images) = Len(outputs)
           /\ \A n \in 1..Len(outputs) :
                 /\ images[n].index = n - 1
                 /\ images[n].url = Some(outputs[n])
                 /\ images[n].path = IF mcp.saved[n]
                                     THEN Some(DestPath(mcp.result.taskId, n))
                                     ELSE Absent

\* the case C30 fails in: the first save failed and a later one succeeded,
\* and the first entry carries the later output's file
C30_PathShifted ==
    /\ PathsResponse
    /\ Len(mcp.result.outputs) >= 2
    /\ ~mcp.saved[1] /\ mcp.saved[2]
    /\ Get(mcp.response).images[1].path = Some(DestPath(mcp.result.taskId, 2))

====
